---- MODULE Spec2Model ----
(***************************************************************************)
(* A model of the tariff engine of eltariff: the recovering JSON           *)
(* extraction and the schema normalization of services/ai_parser.py, the   *)
(* result guard of services/tariff_guard.py and the save/export endpoints  *)
(* of api/results.py and api/generate.py.                                  *)
(*                                                                         *)
(* Text is a sequence of symbols.  A symbol is one structural character    *)
(* ( { } [ ] " \ : , ), a blank, a digit, or a word standing for a run of   *)
(* ordinary characters; the code treats every ordinary character alike.    *)
(* An optional value is a sequence of length 0 (absent) or 1 (present).    *)
(***************************************************************************)
EXTENDS Integers, Sequences, FiniteSets, TLC

VARIABLES
    content,      \* the raw model output handed to _parse_response
    extraction,   \* what the extraction part of _parse_response produced
    request,      \* the dict handed to the normalization part of _parse_response
    response,     \* the TariffsResponse it returned, or its failure
    previous,     \* the response whose serialized form is the request
    origin,       \* where the request came from: "source", "json" or "python"
    nextId,       \* the number of identities generated so far
    clock,        \* the clock read by datetime.now()
    issued,       \* the identities of every entity returned so far
    graphs,       \* the objects of every response returned so far, call by call
    body,         \* the tariffs_json of the request an endpoint last handled
    verdict,      \* the TariffGuardResult the guard last returned
    status,       \* the HTTP status of the last answer
    store,        \* the results storage.save has written, in order
    exported,     \* the content generate_json last returned
    textIn,       \* the text check_el_tariff_text is asked about
    catalogue,    \* the value _normalize_catalogue is given
    apis,         \* what _normalize_catalogue did with it
    cache,        \* the module-level _catalogue_cache
    reply,        \* the CatalogueResponse get_catalogue last returned
    calls         \* the number of get_catalogue calls answered

vars == <<content, extraction, request, response, previous, origin, nextId, clock,
          issued, graphs, body, verdict, status, store, exported, textIn, catalogue, apis,
          cache, reply, calls>>
apiVars == <<body, verdict, status, store, exported>>
exploreVars == <<textIn, catalogue, apis, cache, reply, calls>>
cacheVars == <<cache, reply, calls>>
normVars == <<request, response, previous, origin, nextId, clock, issued, graphs>>

----------------------------------------------------------------------------
(* Symbols *)

LB == "{"
RB == "}"
LK == "["
RK == "]"
Q == "\""
BS == "\\"
COLON == ":"
COMMA == ","
SP == " "

Whitespace == {SP}
Digits == {"1"}

----------------------------------------------------------------------------
(* JSON values: every value is a record of the same shape *)

JV(t, s, n, a) == [t |-> t, s |-> s, n |-> n, a |-> a]
JNull == JV("null", <<>>, 0, <<>>)
JTrue == JV("true", <<>>, 0, <<>>)
JFalse == JV("false", <<>>, 0, <<>>)
JStr(s) == JV("str", s, 0, <<>>)
JNum(n) == JV("num", <<>>, n, <<>>)
JArr(a) == JV("arr", <<>>, 0, a)
JPair(k, v) == JV("pair", k, 0, <<v>>)
JObj(pairs) == JV("obj", <<>>, 0, pairs)

\* dict[k] = v: a repeated key keeps its first position and takes the last value
PutPair(pairs, k, v) ==
    IF \E i \in 1..Len(pairs) : pairs[i].s = k
    THEN [i \in 1..Len(pairs) |-> IF pairs[i].s = k THEN JPair(k, v) ELSE pairs[i]]
    ELSE Append(pairs, JPair(k, v))

----------------------------------------------------------------------------
(* json.loads over the symbol alphabet *)

PFail == [ok |-> FALSE, pos |-> 0, val |-> <<>>]
POk(p, v) == [ok |-> TRUE, pos |-> p, val |-> <<v>>]

RECURSIVE SkipWs(_, _)
SkipWs(s, i) ==
    IF i <= Len(s) /\ s[i] \in Whitespace THEN SkipWs(s, i + 1) ELSE i

At(s, i) == IF i >= 1 /\ i <= Len(s) THEN s[i] ELSE ""

RECURSIVE StrBody(_, _, _)
StrBody(s, j, acc) ==
    IF j > Len(s) THEN PFail
    ELSE IF s[j] = Q THEN [ok |-> TRUE, pos |-> j + 1, val |-> acc]
    ELSE IF s[j] = BS
         THEN IF At(s, j + 1) \in {Q, BS}
              THEN StrBody(s, j + 2, Append(acc, s[j + 1]))
              ELSE PFail
    ELSE StrBody(s, j + 1, Append(acc, s[j]))

\* s[i] is the opening quote; val is the string's symbols
ParseString(s, i) == StrBody(s, i + 1, <<>>)

RECURSIVE NumEnd(_, _)
NumEnd(s, j) == IF At(s, j) \in Digits THEN NumEnd(s, j + 1) ELSE j

DigitOf(ch) == IF ch = "1" THEN 1 ELSE 0

RECURSIVE DigitsValue(_, _, _)
DigitsValue(s, i, j) ==
    IF j < i THEN 0 ELSE 10 * DigitsValue(s, i, j - 1) + DigitOf(s[j])

RECURSIVE ParseValue(_, _)
RECURSIVE Members(_, _, _)
RECURSIVE Elements(_, _, _)

Members(s, j, pairs) ==
    IF At(s, j) # Q THEN PFail
    ELSE LET key == ParseString(s, j) IN
         IF ~key.ok THEN PFail
         ELSE LET c == SkipWs(s, key.pos) IN
              IF At(s, c) # COLON THEN PFail
              ELSE LET v == ParseValue(s, SkipWs(s, c + 1)) IN
                   IF ~v.ok THEN PFail
                   ELSE LET m == SkipWs(s, v.pos)
                            more == PutPair(pairs, key.val, v.val[1])
                        IN IF At(s, m) = RB THEN POk(m + 1, JObj(more))
                           ELSE IF At(s, m) = COMMA
                                THEN Members(s, SkipWs(s, m + 1), more)
                           ELSE PFail

Elements(s, j, items) ==
    LET v == ParseValue(s, j) IN
    IF ~v.ok THEN PFail
    ELSE LET m == SkipWs(s, v.pos)
             more == Append(items, v.val[1])
         IN IF At(s, m) = RK THEN POk(m + 1, JArr(more))
            ELSE IF At(s, m) = COMMA THEN Elements(s, SkipWs(s, m + 1), more)
            ELSE PFail

ParseValue(s, i) ==
    LET ch == At(s, i) IN
    IF ch = Q
    THEN LET r == ParseString(s, i) IN
         IF r.ok THEN POk(r.pos, JStr(r.val)) ELSE PFail
    ELSE IF ch = LB
    THEN LET j == SkipWs(s, i + 1) IN
         IF At(s, j) = RB THEN POk(j + 1, JObj(<<>>)) ELSE Members(s, j, <<>>)
    ELSE IF ch = LK
    THEN LET j == SkipWs(s, i + 1) IN
         IF At(s, j) = RK THEN POk(j + 1, JArr(<<>>)) ELSE Elements(s, j, <<>>)
    ELSE IF ch \in Digits
    THEN LET e == NumEnd(s, i) IN POk(e, JNum(DigitsValue(s, i, e - 1)))
    ELSE PFail

\* json.loads(s): one value between optional blanks, nothing after it
JsonLoads(s) ==
    LET v == ParseValue(s, SkipWs(s, 1)) IN
    IF v.ok /\ SkipWs(s, v.pos) = Len(s) + 1 THEN v ELSE PFail

----------------------------------------------------------------------------
(* str.find, str.rfind, str.rstrip; positions are 1-based, 0 is "not found" *)

Find(s, ch) ==
    IF \E i \in 1..Len(s) : s[i] = ch
    THEN CHOOSE i \in 1..Len(s) : s[i] = ch /\ \A j \in 1..(i - 1) : s[j] # ch
    ELSE 0

RFind(s, ch) ==
    IF \E i \in 1..Len(s) : s[i] = ch
    THEN CHOOSE i \in 1..Len(s) : s[i] = ch /\ \A j \in (i + 1)..Len(s) : s[j] # ch
    ELSE 0

RECURSIVE RStrip(_)
RStrip(s) ==
    IF Len(s) > 0 /\ s[Len(s)] \in Whitespace
    THEN RStrip(SubSeq(s, 1, Len(s) - 1))
    ELSE s

RECURSIVE Repeat(_, _)
Repeat(ch, n) == IF n <= 0 THEN <<>> ELSE <<ch>> \o Repeat(ch, n - 1)

----------------------------------------------------------------------------
(* TariffParser._repair_json: the brace-balance scan *)

ScanInit ==
    [brace_count |-> 0, bracket_count |-> 0, in_string |-> FALSE,
     escape_next |-> FALSE, end_pos |-> 0]

\* the counters after a character met outside a string
Count(st, ch) ==
    IF ch = LB THEN [st EXCEPT !.brace_count = @ + 1]
    ELSE IF ch = RB THEN [st EXCEPT !.brace_count = @ - 1]
    ELSE IF ch = LK THEN [st EXCEPT !.bracket_count = @ + 1]
    ELSE IF ch = RK THEN [st EXCEPT !.bracket_count = @ - 1]
    ELSE st

\* ScanStep without the string mode: every brace and bracket is counted
ScanStepNoStringMode(st, ch, p) ==
    IF st.end_pos > 0 THEN st
    ELSE LET c == Count(st, ch) IN
         IF c.brace_count = 0 /\ c.bracket_count = 0 /\ p > 1
         THEN [c EXCEPT !.end_pos = p]
         ELSE c

\* one iteration of the loop, for the p-th symbol of json_str (i = p - 1);
\* once end_pos is set the loop has left by break
ScanStep(st, ch, p) ==
    IF st.end_pos > 0 THEN st
    ELSE IF st.escape_next THEN [st EXCEPT !.escape_next = FALSE]
    ELSE IF ch = BS THEN [st EXCEPT !.escape_next = TRUE]
    ELSE IF ch = Q THEN [st EXCEPT !.in_string = ~@]
    ELSE IF st.in_string THEN st
    ELSE LET c == Count(st, ch) IN
         IF c.brace_count = 0 /\ c.bracket_count = 0 /\ p > 1
         THEN [c EXCEPT !.end_pos = p]
         ELSE c

RECURSIVE ScanTo(_, _)
ScanTo(s, n) ==
    IF n = 0 THEN ScanInit ELSE ScanStep(ScanTo(s, n - 1), s[n], n)

\* the closers appended when the counters never returned to zero
Closers(st) == Repeat(RB, st.brace_count) \o Repeat(RK, st.bracket_count)

\* RepairJson without the cut at the boundary: the text after it is kept
RepairJsonNoCut(text) ==
    LET start == Find(text, LB) IN
    IF start = 0 THEN [ok |-> FALSE, json_str |-> <<>>]
    ELSE LET json_str == SubSeq(text, start, Len(text))
             st == ScanTo(json_str, Len(json_str))
         IN IF st.end_pos > 0
            THEN [ok |-> TRUE, json_str |-> json_str]
            ELSE [ok |-> TRUE, json_str |-> RStrip(json_str) \o Closers(st)]

RepairJson(text) ==
    LET start == Find(text, LB) IN
    IF start = 0 THEN [ok |-> FALSE, json_str |-> <<>>]
    ELSE LET json_str == SubSeq(text, start, Len(text))
             st == ScanTo(json_str, Len(json_str))
         IN IF st.end_pos > 0
            THEN [ok |-> TRUE, json_str |-> SubSeq(json_str, 1, st.end_pos)]
            ELSE [ok |-> TRUE, json_str |-> RStrip(json_str) \o Closers(st)]

----------------------------------------------------------------------------
(* TariffParser._parse_response, the extraction part *)

\* json_str is the text last handed to json.loads; cause is the text whose
\* JSONDecodeError the error message carries
NoExtraction ==
    [status |-> "none", path |-> "", err |-> "", data |-> <<>>, json_str |-> <<>>,
     cause |-> <<>>]

Extracted(path, text, v) ==
    [status |-> "ok", path |-> path, err |-> "", data |-> <<v>>, json_str |-> text,
     cause |-> <<>>]

ExtractError(path, e) ==
    [status |-> "error", path |-> path, err |-> e, data |-> <<>>, json_str |-> <<>>,
     cause |-> <<>>]

\* ExtractJson without the repair pass: a failed direct parse is final
ExtractJsonDirectOnly(text) ==
    LET start == Find(text, LB)
        last == RFind(text, RB)
    IN IF start = 0 \/ last < start
       THEN ExtractError("direct", "No JSON found in response")
       ELSE LET slice == SubSeq(text, start, last)
                direct == JsonLoads(slice)
            IN IF direct.ok
               THEN Extracted("direct", slice, direct.val[1])
               ELSE ExtractError("direct", "Failed to parse AI response as JSON")

\* ExtractJson that falls back on parsing the whole text when it finds no
\* object to slice
ExtractJsonWholeText(text) ==
    LET start == Find(text, LB)
        last == RFind(text, RB)
    IN IF start = 0 \/ last < start
       THEN LET whole == JsonLoads(text) IN
            IF whole.ok THEN Extracted("direct", text, whole.val[1])
            ELSE ExtractError("direct", "No JSON found in response")
       ELSE LET slice == SubSeq(text, start, last)
                direct == JsonLoads(slice)
            IN IF direct.ok
               THEN Extracted("direct", slice, direct.val[1])
               ELSE LET rep == RepairJson(text)
                        again == IF rep.ok THEN JsonLoads(rep.json_str) ELSE PFail
                    IN IF again.ok
                       THEN Extracted("repair", rep.json_str, again.val[1])
                       ELSE ExtractError("repair", "Failed to parse AI response as JSON")

\* ExtractJson whose final error carries the error of the repair attempt
ExtractJsonRepairError(text) ==
    LET start == Find(text, LB)
        last == RFind(text, RB)
    IN IF start = 0 \/ last < start
       THEN ExtractError("direct", "No JSON found in response")
       ELSE LET slice == SubSeq(text, start, last)
                direct == JsonLoads(slice)
            IN IF direct.ok
               THEN Extracted("direct", slice, direct.val[1])
               ELSE LET rep == RepairJson(text)
                        again == IF rep.ok THEN JsonLoads(rep.json_str) ELSE PFail
                    IN IF again.ok
                       THEN Extracted("repair", rep.json_str, again.val[1])
                       ELSE [ExtractError("repair", "Failed to parse AI response as JSON")
                                EXCEPT !.json_str = rep.json_str, !.cause = rep.json_str]

\* ExtractJson that hands a text with "{" but no "}" after it to the repair
ExtractJsonRepairUnclosed(text) ==
    LET start == Find(text, LB)
        last == RFind(text, RB)
    IN IF start = 0
       THEN ExtractError("direct", "No JSON found in response")
       ELSE LET slice == SubSeq(text, start, last)
                direct == IF last < start THEN PFail ELSE JsonLoads(slice)
            IN IF direct.ok
               THEN Extracted("direct", slice, direct.val[1])
               ELSE LET rep == RepairJson(text)
                        again == IF rep.ok THEN JsonLoads(rep.json_str) ELSE PFail
                    IN IF again.ok
                       THEN Extracted("repair", rep.json_str, again.val[1])
                       ELSE [ExtractError("repair", "Failed to parse AI response as JSON")
                                EXCEPT !.json_str = rep.json_str, !.cause = slice]

ExtractJson(text) ==
    LET start == Find(text, LB)
        last == RFind(text, RB)
    IN IF start = 0 \/ last < start
       THEN ExtractError("direct", "No JSON found in response")
       ELSE LET slice == SubSeq(text, start, last)
                direct == JsonLoads(slice)
            IN IF direct.ok
               THEN Extracted("direct", slice, direct.val[1])
               ELSE LET rep == RepairJson(text)
                        again == IF rep.ok THEN JsonLoads(rep.json_str) ELSE PFail
                    IN IF again.ok
                       THEN Extracted("repair", rep.json_str, again.val[1])
                       ELSE [ExtractError("repair", "Failed to parse AI response as JSON")
                                EXCEPT !.json_str = rep.json_str, !.cause = slice]

----------------------------------------------------------------------------
(* The texts the extraction is run on *)

MaxTextLen == 3
MaxGarbageLen == 2

Alphabet == {LB, RB, LK, RK, Q, BS, COLON, COMMA, SP, "a", "1"}

RECURSIVE Strs(_)
Strs(n) ==
    IF n = 0 THEN {<<>>}
    ELSE LET shorter == Strs(n - 1) IN
         shorter \cup {Append(s, c) : s \in shorter, c \in Alphabet}

WeirdCity ==
    <<LB, Q, "name", Q, COLON, SP, Q, "A", SP, LB, "weird", RB, SP, "city", Q, RB>>
TariffsX ==
    <<LB, Q, "tariffs", Q, COLON, SP, LK, LB, Q, "name", Q, COLON, SP, Q, "X", Q,
      RB, RK, RB>>
TruncatedTariffsX == SubSeq(TariffsX, 1, 16)

DocTexts ==
    { <<LB, RB>>,
      <<LB, Q, "a", Q, COLON, "1", RB>>,
      WeirdCity,
      TariffsX,
      <<LB, Q, "a", Q, COLON, Q, RB, Q, RB>>,
      <<LB, Q, "a", Q, COLON, Q, BS, Q, LB, Q, RB>>,
      <<LB, Q, "a", Q, COLON, LB, RB, COMMA, Q, "t", Q, COLON, LK, LB, Q, "n", Q,
        COLON, Q, "X", Q, RB, RK, RB>>,
      <<LB, Q, "a", Q, COLON, Q, RK, LK, Q, RB>>,
      <<LB, Q, "a", Q, COLON, LB, Q, "b", Q, COLON, LB, RB, RB, RB>> }

Prefixes(s) == {SubSeq(s, 1, n) : n \in 0..Len(s)}
Prose == {<<>>, <<"a", COLON, SP>>}

Texts ==
    Strs(MaxTextLen)
    \cup UNION {Prefixes(d) : d \in DocTexts}
    \cup {p \o d \o g : p \in Prose, d \in DocTexts, g \in Strs(MaxGarbageLen)}

----------------------------------------------------------------------------
(* Python values met by the normalizer: dict access, truthiness, str()      *)

W(x) == <<x>>

IsObj(v) == v.t = "obj"
IsStr(v) == v.t = "str"
Has(v, k) == IsObj(v) /\ \E i \in 1..Len(v.a) : v.a[i].s = W(k)
Get(v, k) == LET i == CHOOSE i \in 1..Len(v.a) : v.a[i].s = W(k) IN v.a[i].a[1]
\* dict.get(k, default): a key present with null yields null, not the default
GetOr(v, k, default) == IF Has(v, k) THEN Get(v, k) ELSE default

\* bool(v)
Truthy(v) ==
    CASE v.t = "null" -> FALSE
      [] v.t = "false" -> FALSE
      [] v.t = "num" -> v.n # 0
      [] v.t = "str" -> v.s # <<>>
      [] v.t \in {"arr", "obj"} -> v.a # <<>>
      [] OTHER -> TRUE

\* values that are no JSON but Python objects of a model_dump: a date, a time,
\* a Decimal, a UUID; and a JSON float, kept by its repr
JFloat(repr) == JV("float", W(repr), 0, <<>>)
PyDate(d) == JV("date", <<>>, d, <<>>)
PyTime(m) == JV("time", <<>>, m, <<>>)
PyDecimal(tok) == JV("decimal", W(tok), 0, <<>>)
Uuid(n) == JV("uuid", <<>>, n, <<>>)

Fail == [ok |-> FALSE, v |-> <<>>]
Ok(x) == [ok |-> TRUE, v |-> x]

\* date.fromisoformat: the argument must be a str in ISO format; the value is
\* the day (a number standing for the date)
DateTokens == {"2025-01-01", "20250101", "2026-01-01"}
DayOf(tok) == IF tok = "2026-01-01" THEN 2 ELSE 1
DateFromIso(v) ==
    IF IsStr(v) /\ Len(v.s) = 1 /\ v.s[1] \in DateTokens
    THEN Ok(DayOf(v.s[1])) ELSE Fail
\* date.isoformat
DateIso(d) == IF d = 2 THEN "2026-01-01" ELSE "2025-01-01"

\* time.fromisoformat; the value is the minute of the day
TimeTokens == {"06:00", "06:00:00", "22:00", "22:00:00"}
MinuteOf(tok) == IF tok \in {"06:00", "06:00:00"} THEN 360 ELSE 1320
TimeFromIso(v) ==
    IF IsStr(v) /\ Len(v.s) = 1 /\ v.s[1] \in TimeTokens
    THEN Ok(MinuteOf(v.s[1])) ELSE Fail
\* time.isoformat
TimeIso(m) == IF m = 360 THEN "06:00:00" ELSE "22:00:00"

\* json.loads of a number with a fraction or an exponent: the float nearest to
\* the literal, kept by its repr (the shortest text that reads back as it)
FloatOfLiteral(lit) ==
    CASE lit = "0.20" -> JFloat("0.2")
      [] lit = "56.25" -> JFloat("56.25")
      [] lit = "1e-400" -> JFloat("0.0")

\* Decimal(str(x)): a Decimal is its digits m and its number of decimals e
Dec(m, e) == [m |-> m, e |-> e]
DecimalTokens == {"0", "45", "0.2", "0.20", "56.25", "0.0", "1e-400", "1E-400"}
DecimalOfToken(tok) ==
    CASE tok = "0" -> Dec(0, 0)
      [] tok = "0.0" -> Dec(0, 1)
      [] tok \in {"1e-400", "1E-400"} -> Dec(1, 400)
      [] tok = "45" -> Dec(45, 0)
      [] tok = "0.2" -> Dec(2, 1)
      [] tok = "0.20" -> Dec(20, 2)
      [] tok = "56.25" -> Dec(5625, 2)
\* str(Decimal)
DecimalStr(d) ==
    CASE d = Dec(0, 0) -> "0"
      [] d = Dec(0, 1) -> "0.0"
      [] d = Dec(1, 400) -> "1E-400"
      [] d = Dec(45, 0) -> "45"
      [] d = Dec(2, 1) -> "0.2"
      [] d = Dec(20, 2) -> "0.20"
      [] d = Dec(5625, 2) -> "56.25"
DecimalOfStr(v) ==
    CASE v.t = "num" /\ v.n \in {0, 45} -> Ok(Dec(v.n, 0))
      [] v.t \in {"str", "float", "decimal"} /\ Len(v.s) = 1 /\ v.s[1] \in DecimalTokens
           -> Ok(DecimalOfToken(v.s[1]))
      [] OTHER -> Fail

\* Enum(value): the value must be a member's value
EnumOf(v, members) ==
    IF IsStr(v) /\ Len(v.s) = 1 /\ v.s[1] \in members THEN Ok(v.s[1]) ELSE Fail

Currencies == {"SEK", "EUR"}
Units == {"kWh", "kW", "kVAr"}
ComponentTypes == {"fixed", "variable", "peak", "dynamic"}
Directions == {"consumption", "production"}

\* pydantic's str, str | None, int and list[str] fields
StrField(v) == IF IsStr(v) THEN Ok(v.s) ELSE Fail
OptStrField(v) ==
    IF v.t = "null" THEN Ok(<<>>) ELSE IF IsStr(v) THEN Ok(<<v.s>>) ELSE Fail
IntField(v) == IF v.t = "num" THEN Ok(v.n) ELSE Fail
StrListField(v) ==
    IF v.t = "arr" /\ \A i \in 1..Len(v.a) : IsStr(v.a[i])
    THEN Ok([i \in 1..Len(v.a) |-> v.a[i].s]) ELSE Fail

\* x = value; ...: the value is computed once, when the local name is assigned
Bind(value, Rest(_)) == CHOOSE r \in {Rest(x) : x \in {value}} : TRUE

\* for x in v: a list yields its items; an empty str or dict yields nothing
Items(v) ==
    IF v.t = "arr" THEN Ok(v.a)
    ELSE IF v.t \in {"str", "obj"} /\ ~Truthy(v) THEN Ok(<<>>)
    ELSE Fail

AllOk(rs) == \A i \in 1..Len(rs) : rs[i].ok
Values(rs) == [i \in 1..Len(rs) |-> rs[i].v]

----------------------------------------------------------------------------
(* TariffParser._parse_recurring_period *)

\* the ValidPeriod built in _parse_tariff and _parse_component
ParseValidPeriod(vp) ==
    IF ~Has(vp, "fromIncluding") THEN Fail
    ELSE LET from == DateFromIso(Get(vp, "fromIncluding"))
             hasTo == Truthy(GetOr(vp, "toExcluding", JNull))
             to == IF hasTo THEN DateFromIso(Get(vp, "toExcluding")) ELSE Fail
         IN IF ~from.ok \/ (hasTo /\ ~to.ok) THEN Fail
            ELSE Ok([fromIncluding |-> from.v,
                     toExcluding |-> IF hasTo THEN <<to.v>> ELSE <<>>])

\* CalendarPatternReference(include=cpr.get("include", []), exclude=...)
ParseCalRefs(cpr) ==
    IF ~IsObj(cpr) THEN Fail
    ELSE LET inc == StrListField(GetOr(cpr, "include", JArr(<<>>)))
             exc == StrListField(GetOr(cpr, "exclude", JArr(<<>>)))
         IN IF inc.ok /\ exc.ok
            THEN Ok([include |-> inc.v, exclude |-> exc.v]) ELSE Fail

ParseActivePeriod(ap) ==
    IF ~IsObj(ap) THEN Fail
    ELSE LET hasRefs == Has(ap, "calendarPatternReferences")
             refs == IF hasRefs THEN ParseCalRefs(Get(ap, "calendarPatternReferences"))
                     ELSE Fail
         IN IF hasRefs /\ ~refs.ok THEN Fail
            ELSE IF ~Has(ap, "fromIncluding") \/ ~Has(ap, "toExcluding") THEN Fail
            ELSE LET from == TimeFromIso(Get(ap, "fromIncluding"))
                     to == TimeFromIso(Get(ap, "toExcluding"))
                 IN IF ~from.ok \/ ~to.ok THEN Fail
                    ELSE Ok([fromIncluding |-> from.v,
                             toExcluding |-> to.v,
                             calendarPatternReferences |->
                                 IF hasRefs THEN <<refs.v>> ELSE <<>>])

\* ParseRecurringPeriod with a weekly default frequency
ParseRecurringPeriodWeekly(data) ==
    IF ~IsObj(data) THEN Fail
    ELSE LET aps == Items(GetOr(data, "activePeriods", JArr(<<>>)))
             parsed == IF aps.ok
                       THEN [i \in 1..Len(aps.v) |-> ParseActivePeriod(aps.v[i])]
                       ELSE <<>>
             ref == StrField(GetOr(data, "reference", JStr(W("main"))))
             freq == StrField(GetOr(data, "frequency", JStr(W("P1W"))))
         IN IF ~aps.ok \/ ~AllOk(parsed) \/ ~ref.ok \/ ~freq.ok THEN Fail
            ELSE Ok([reference |-> ref.v, frequency |-> freq.v,
                     activePeriods |-> Values(parsed)])

ParseRecurringPeriod(data) ==
    IF ~IsObj(data) THEN Fail
    ELSE LET aps == Items(GetOr(data, "activePeriods", JArr(<<>>)))
             parsed == IF aps.ok
                       THEN [i \in 1..Len(aps.v) |-> ParseActivePeriod(aps.v[i])]
                       ELSE <<>>
             ref == StrField(GetOr(data, "reference", JStr(W("main"))))
             freq == StrField(GetOr(data, "frequency", JStr(W("P1D"))))
         IN IF ~aps.ok \/ ~AllOk(parsed) \/ ~ref.ok \/ ~freq.ok THEN Fail
            ELSE Ok([reference |-> ref.v, frequency |-> freq.v,
                     activePeriods |-> Values(parsed)])

----------------------------------------------------------------------------
(* TariffParser._parse_component, _parse_price_element, _parse_tariff *)

\* NewId that keeps the identity the source supplies
NewIdOrSource(data, n) == IF Has(data, "id") THEN Get(data, "id") ELSE Uuid(n)

\* id=uuid4(): the n-th identity generated by this process; the source's own
\* "id" is not read
NewId(data, n) == Uuid(n)

\* ParsePrice that requires both price values: price_data["priceExVat"]
ParsePriceRequired(price_data) ==
    IF ~IsObj(price_data) THEN Fail
    ELSE IF ~Has(price_data, "priceExVat") \/ ~Has(price_data, "priceIncVat") THEN Fail
    ELSE LET ex == DecimalOfStr(Get(price_data, "priceExVat"))
             inc == DecimalOfStr(Get(price_data, "priceIncVat"))
             cur == EnumOf(GetOr(price_data, "currency", JStr(W("SEK"))), Currencies)
         IN IF ex.ok /\ inc.ok /\ cur.ok
            THEN Ok([priceExVat |-> ex.v, priceIncVat |-> inc.v, currency |-> cur.v])
            ELSE Fail

ParsePrice(price_data) ==
    IF ~IsObj(price_data) THEN Fail
    ELSE LET ex == DecimalOfStr(GetOr(price_data, "priceExVat", JNum(0)))
             inc == DecimalOfStr(GetOr(price_data, "priceIncVat", JNum(0)))
             cur == EnumOf(GetOr(price_data, "currency", JStr(W("SEK"))), Currencies)
         IN IF ex.ok /\ inc.ok /\ cur.ok
            THEN Ok([priceExVat |-> ex.v, priceIncVat |-> inc.v, currency |-> cur.v])
            ELSE Fail

ParsePeakSettings(ps) ==
    IF ~IsObj(ps) THEN Fail
    ELSE LET fn == StrField(GetOr(ps, "peakFunction", JStr(W("peak(main)"))))
             per == StrField(GetOr(ps, "peakIdentificationPeriod", JStr(W("P1D"))))
             dur == StrField(GetOr(ps, "peakDuration", JStr(W("PT1H"))))
             num == IntField(GetOr(ps, "numberOfPeaksForAverageCalculation", JNum(1)))
         IN IF fn.ok /\ per.ok /\ dur.ok /\ num.ok
            THEN Ok([peakFunction |-> fn.v, peakIdentificationPeriod |-> per.v,
                     peakDuration |-> dur.v,
                     numberOfPeaksForAverageCalculation |-> num.v])
            ELSE Fail

\* unit = Unit(data["unit"]) if data.get("unit") else None
ParseUnit(data) ==
    IF Truthy(GetOr(data, "unit", JNull))
    THEN LET u == EnumOf(Get(data, "unit"), Units) IN
         IF u.ok THEN Ok(<<u.v>>) ELSE Fail
    ELSE Ok(<<>>)

\* OptionalOf that also wants a non-empty components list of the container
OptionalOfWithComponents(data, k, parsed) ==
    IF Has(data, k) /\ Truthy(Get(data, k))
       /\ Truthy(GetOr(Get(data, k), "components", JTrue))
    THEN Bind(parsed, LAMBDA r : IF r.ok THEN Ok(<<r.v>>) ELSE Fail)
    ELSE Ok(<<>>)

\* an optional container: parsed when the key is present with a truthy value
OptionalOf(data, k, parsed) ==
    IF Has(data, k) /\ Truthy(Get(data, k))
    THEN Bind(parsed, LAMBDA r : IF r.ok THEN Ok(<<r.v>>) ELSE Fail)
    ELSE Ok(<<>>)

ParseComponent(data, n) ==
    IF ~IsObj(data) THEN Fail
    ELSE LET price == ParsePrice(GetOr(data, "price", JObj(<<>>)))
             rps == Items(GetOr(data, "recurringPeriods", JArr(<<>>)))
             periods == IF rps.ok
                        THEN [i \in 1..Len(rps.v) |-> ParseRecurringPeriod(rps.v[i])]
                        ELSE <<>>
             peak == OptionalOf(data, "peakIdentificationSettings",
                                ParsePeakSettings(GetOr(data, "peakIdentificationSettings", JNull)))
             valid == OptionalOf(data, "validPeriod",
                                 ParseValidPeriod(GetOr(data, "validPeriod", JNull)))
             unit == ParseUnit(data)
             name == StrField(GetOr(data, "name", JStr(<<>>)))
             descr == OptStrField(GetOr(data, "description", JNull))
             type == EnumOf(GetOr(data, "type", JStr(W("fixed"))), ComponentTypes)
             ref == StrField(GetOr(data, "reference", JStr(W("main"))))
             priced == OptStrField(GetOr(data, "pricedPeriod", JNull))
         IN IF ~price.ok \/ ~rps.ok \/ ~AllOk(periods) \/ ~peak.ok \/ ~valid.ok
               \/ ~unit.ok \/ ~name.ok \/ ~descr.ok \/ ~type.ok \/ ~ref.ok \/ ~priced.ok
            THEN Fail
            ELSE Ok([id |-> NewId(data, n),
                     name |-> name.v,
                     description |-> descr.v,
                     type |-> type.v,
                     reference |-> ref.v,
                     validPeriod |-> valid.v,
                     price |-> price.v,
                     unit |-> unit.v,
                     pricedPeriod |-> priced.v,
                     recurringPeriods |-> Values(periods),
                     peakIdentificationSettings |-> peak.v])

\* the i-th component takes the identity n + i - 1, the element the next one
ParsePriceElement(data, n) ==
    IF ~IsObj(data) THEN Fail
    ELSE LET cs == Items(GetOr(data, "components", JArr(<<>>)))
             name == StrField(GetOr(data, "name", JStr(<<>>)))
             descr == OptStrField(GetOr(data, "description", JNull))
             cost == OptStrField(GetOr(data, "costFunction", JNull))
         IN Bind(IF cs.ok
                 THEN [i \in 1..Len(cs.v) |-> ParseComponent(cs.v[i], n + i - 1)]
                 ELSE <<>>,
                 LAMBDA comps :
            IF ~cs.ok \/ ~AllOk(comps) \/ ~name.ok \/ ~descr.ok \/ ~cost.ok THEN Fail
            ELSE Ok([id |-> NewId(data, n + Len(comps)),
                     name |-> name.v,
                     description |-> descr.v,
                     costFunction |-> cost.v,
                     components |-> Values(comps)]))

\* the identities an element takes: one for each component and its own
IdsIn(el) == IF el = <<>> THEN 0 ELSE Len(el[1].components) + 1

ParseTariff(data, n, now) ==
    IF ~IsObj(data) \/ ~Has(data, "validPeriod") THEN Fail
    ELSE
    Bind(OptionalOf(data, "fixedPrice",
                    ParsePriceElement(GetOr(data, "fixedPrice", JNull), n)),
         LAMBDA fixed :
    Bind(OptionalOf(data, "energyPrice",
                    ParsePriceElement(GetOr(data, "energyPrice", JNull),
                                      n + (IF fixed.ok THEN IdsIn(fixed.v) ELSE 0))),
         LAMBDA energy :
    Bind(OptionalOf(data, "powerPrice",
                    ParsePriceElement(GetOr(data, "powerPrice", JNull),
                                      n + (IF fixed.ok THEN IdsIn(fixed.v) ELSE 0)
                                        + (IF energy.ok THEN IdsIn(energy.v) ELSE 0))),
         LAMBDA power :
         LET valid == ParseValidPeriod(Get(data, "validPeriod"))
             n4 == n + (IF fixed.ok THEN IdsIn(fixed.v) ELSE 0)
                     + (IF energy.ok THEN IdsIn(energy.v) ELSE 0)
                     + (IF power.ok THEN IdsIn(power.v) ELSE 0)
             name == IF Has(data, "name") THEN StrField(Get(data, "name")) ELSE Fail
             descr == OptStrField(GetOr(data, "description", JNull))
             zone == StrField(GetOr(data, "timeZone", JStr(W("Europe/Stockholm"))))
             company == IF Has(data, "companyName")
                        THEN StrField(Get(data, "companyName")) ELSE Fail
             orgNo == StrField(GetOr(data, "companyOrgNo", JStr(<<>>)))
             product == OptStrField(GetOr(data, "product", JNull))
             dir == EnumOf(GetOr(data, "direction", JStr(W("consumption"))), Directions)
             billing == StrField(GetOr(data, "billingPeriod", JStr(W("P1M"))))
         IN IF ~valid.ok \/ ~fixed.ok \/ ~energy.ok \/ ~power.ok \/ ~name.ok
               \/ ~descr.ok \/ ~zone.ok \/ ~company.ok \/ ~orgNo.ok \/ ~product.ok
               \/ ~dir.ok \/ ~billing.ok
            THEN Fail
            ELSE Ok([id |-> NewId(data, n4),
                     name |-> name.v,
                     description |-> descr.v,
                     validPeriod |-> valid.v,
                     timeZone |-> zone.v,
                     lastUpdated |-> now,
                     companyName |-> company.v,
                     companyOrgNo |-> orgNo.v,
                     product |-> product.v,
                     direction |-> dir.v,
                     billingPeriod |-> billing.v,
                     fixedPrice |-> fixed.v,
                     energyPrice |-> energy.v,
                     powerPrice |-> power.v]))))

\* the identities a tariff took
IdsOfTariff(t) == IdsIn(t.fixedPrice) + IdsIn(t.energyPrice) + IdsIn(t.powerPrice) + 1

----------------------------------------------------------------------------
(* TariffParser._parse_response, the normalization part *)

\* DEFAULT_CALENDAR_PATTERNS: the holiday dates are named, not listed
DefaultCalendarPatterns ==
    << [reference |-> "weekdays", frequency |-> "P1W", days |-> <<1, 2, 3, 4, 5>>,
        dates |-> <<>>],
       [reference |-> "weekends", frequency |-> "P1W", days |-> <<6, 7>>,
        dates |-> <<>>],
       [reference |-> "holidays", frequency |-> "P1Y", days |-> <<>>,
        dates |-> <<"holidays-2025">>] >>

NoResponse ==
    [status |-> "none", tariffs |-> <<>>, calendarPatterns |-> <<>>,
     warnings |-> <<>>, used |-> 0]
Failed == [NoResponse EXCEPT !.status = "error"]

\* ParseTariffs that leaves out a tariff that fails and goes on
RECURSIVE ParseTariffsSkipInvalid(_, _, _, _, _)
ParseTariffsSkipInvalid(items, i, n, now, acc) ==
    IF i > Len(items) THEN [ok |-> TRUE, v |-> acc, n |-> n]
    ELSE Bind(ParseTariff(items[i], n, now), LAMBDA t :
         IF ~t.ok THEN ParseTariffsSkipInvalid(items, i + 1, n, now, acc)
         ELSE ParseTariffsSkipInvalid(items, i + 1, n + IdsOfTariff(t.v), now,
                                      Append(acc, t.v)))

\* the loop over data.get("tariffs", []): the first tariff that fails ends it
RECURSIVE ParseTariffs(_, _, _, _, _)
ParseTariffs(items, i, n, now, acc) ==
    IF i > Len(items) THEN [ok |-> TRUE, v |-> acc, n |-> n]
    ELSE Bind(ParseTariff(items[i], n, now), LAMBDA t :
         IF ~t.ok THEN [ok |-> FALSE, v |-> <<>>, n |-> n]
         ELSE ParseTariffs(items, i + 1, n + IdsOfTariff(t.v), now, Append(acc, t.v)))

\* warnings = data.get("warnings", []), [] unless a list; TariffsResponse
\* wants a list of str
WarningsOf(data) ==
    LET w == GetOr(data, "warnings", JArr(<<>>)) IN
    IF w.t = "arr" THEN StrListField(w) ELSE Ok(<<>>)

\* Normalize that keeps the calendar patterns the source gives
NormalizeKeepPatterns(data, n, now) ==
    LET items == Items(GetOr(data, "tariffs", JArr(<<>>)))
        warn == WarningsOf(data)
        given == GetOr(data, "calendarPatterns", JNull)
    IN Bind(IF items.ok THEN ParseTariffs(items.v, 1, n, now, <<>>)
            ELSE [ok |-> FALSE, v |-> <<>>, n |-> n],
            LAMBDA parsed :
       IF ~items.ok \/ ~parsed.ok \/ ~warn.ok THEN Failed
       ELSE [status |-> "ok",
             tariffs |-> parsed.v,
             calendarPatterns |->
                 IF given.t = "arr"
                 THEN [i \in 1..Len(given.a) |->
                          [reference |-> "source", frequency |-> "P1W",
                           days |-> <<>>, dates |-> <<>>]]
                 ELSE DefaultCalendarPatterns,
             warnings |-> warn.v,
             used |-> parsed.n - n])

\* data is the extracted dict, n the next identity, now the clock
Normalize(data, n, now) ==
    LET items == Items(GetOr(data, "tariffs", JArr(<<>>)))
        warn == WarningsOf(data)
    IN Bind(IF items.ok THEN ParseTariffs(items.v, 1, n, now, <<>>)
            ELSE [ok |-> FALSE, v |-> <<>>, n |-> n],
            LAMBDA parsed :
       IF ~items.ok \/ ~parsed.ok \/ ~warn.ok THEN Failed
       ELSE [status |-> "ok",
             tariffs |-> parsed.v,
             calendarPatterns |-> DefaultCalendarPatterns,
             warnings |-> warn.v,
             used |-> parsed.n - n])

----------------------------------------------------------------------------
(* model_dump(by_alias=True) of a TariffsResponse, in Python mode (dates,   *)
(* times and Decimals stay objects) and in JSON mode (they become strings)  *)

P(k, v) == JPair(W(k), v)
S(x) == JStr(W(x))

DumpOptStr(o) == IF o = <<>> THEN JNull ELSE JStr(o[1])
DumpDate(d, mode) == IF mode = "python" THEN PyDate(d) ELSE S(DateIso(d))
DumpTime(m, mode) == IF mode = "python" THEN PyTime(m) ELSE S(TimeIso(m))
DumpDecimal(d, mode) ==
    IF mode = "python" THEN PyDecimal(DecimalStr(d)) ELSE S(DecimalStr(d))
DumpStrList(l) == JArr([i \in 1..Len(l) |-> JStr(l[i])])

DumpValidPeriod(vp, mode) ==
    JObj(<<P("fromIncluding", DumpDate(vp.fromIncluding, mode)),
           P("toExcluding", IF vp.toExcluding = <<>> THEN JNull
                            ELSE DumpDate(vp.toExcluding[1], mode))>>)

DumpActivePeriod(ap, mode) ==
    JObj(<<P("fromIncluding", DumpTime(ap.fromIncluding, mode)),
           P("toExcluding", DumpTime(ap.toExcluding, mode)),
           P("calendarPatternReferences",
             IF ap.calendarPatternReferences = <<>> THEN JNull
             ELSE JObj(<<P("include", DumpStrList(ap.calendarPatternReferences[1].include)),
                         P("exclude", DumpStrList(ap.calendarPatternReferences[1].exclude))>>))>>)

DumpRecurringPeriod(rp, mode) ==
    JObj(<<P("reference", JStr(rp.reference)),
           P("frequency", JStr(rp.frequency)),
           P("activePeriods",
             JArr([i \in 1..Len(rp.activePeriods) |->
                      DumpActivePeriod(rp.activePeriods[i], mode)]))>>)

DumpPeakSettings(ps) ==
    JObj(<<P("peakFunction", JStr(ps.peakFunction)),
           P("peakIdentificationPeriod", JStr(ps.peakIdentificationPeriod)),
           P("peakDuration", JStr(ps.peakDuration)),
           P("numberOfPeaksForAverageCalculation",
             JNum(ps.numberOfPeaksForAverageCalculation))>>)

DumpComponent(c, mode) ==
    JObj(<<P("id", c.id),
           P("name", JStr(c.name)),
           P("description", DumpOptStr(c.description)),
           P("type", S(c.type)),
           P("reference", JStr(c.reference)),
           P("validPeriod", IF c.validPeriod = <<>> THEN JNull
                            ELSE DumpValidPeriod(c.validPeriod[1], mode)),
           P("price", JObj(<<P("priceExVat", DumpDecimal(c.price.priceExVat, mode)),
                             P("priceIncVat", DumpDecimal(c.price.priceIncVat, mode)),
                             P("currency", S(c.price.currency))>>)),
           P("unit", IF c.unit = <<>> THEN JNull ELSE S(c.unit[1])),
           P("pricedPeriod", DumpOptStr(c.pricedPeriod)),
           P("recurringPeriods",
             JArr([i \in 1..Len(c.recurringPeriods) |->
                      DumpRecurringPeriod(c.recurringPeriods[i], mode)])),
           P("peakIdentificationSettings",
             IF c.peakIdentificationSettings = <<>> THEN JNull
             ELSE DumpPeakSettings(c.peakIdentificationSettings[1]))>>)

DumpElement(el, mode) ==
    IF el = <<>> THEN JNull
    ELSE JObj(<<P("id", el[1].id),
                P("name", JStr(el[1].name)),
                P("description", DumpOptStr(el[1].description)),
                P("costFunction", DumpOptStr(el[1].costFunction)),
                P("components",
                  JArr([i \in 1..Len(el[1].components) |->
                           DumpComponent(el[1].components[i], mode)]))>>)

DumpTariff(t, mode) ==
    JObj(<<P("id", t.id),
           P("name", JStr(t.name)),
           P("description", DumpOptStr(t.description)),
           P("validPeriod", DumpValidPeriod(t.validPeriod, mode)),
           P("timeZone", JStr(t.timeZone)),
           P("lastUpdated", JV("datetime", <<>>, t.lastUpdated, <<>>)),
           P("companyName", JStr(t.companyName)),
           P("companyOrgNo", JStr(t.companyOrgNo)),
           P("product", DumpOptStr(t.product)),
           P("direction", S(t.direction)),
           P("billingPeriod", JStr(t.billingPeriod)),
           P("fixedPrice", DumpElement(t.fixedPrice, mode)),
           P("energyPrice", DumpElement(t.energyPrice, mode)),
           P("powerPrice", DumpElement(t.powerPrice, mode))>>)

DumpCalendarPattern(cp) ==
    JObj(<<P("reference", S(cp.reference)),
           P("frequency", S(cp.frequency)),
           P("days", IF cp.days = <<>> THEN JNull
                     ELSE JArr([i \in 1..Len(cp.days) |-> JNum(cp.days[i])])),
           P("dates", IF cp.dates = <<>> THEN JNull ELSE DumpStrList(<<cp.dates>>))>>)

ModelDump(resp, mode) ==
    JObj(<<P("tariffs",
             JArr([i \in 1..Len(resp.tariffs) |-> DumpTariff(resp.tariffs[i], mode)])),
           P("calendarPatterns",
             JArr([i \in 1..Len(resp.calendarPatterns) |->
                      DumpCalendarPattern(resp.calendarPatterns[i])])),
           P("warnings", DumpStrList(resp.warnings))>>)

----------------------------------------------------------------------------
(* tariff_guard.check_tariffs_response *)

RECURSIVE LStrip(_)
LStrip(s) == IF Len(s) > 0 /\ s[1] \in Whitespace THEN LStrip(Tail(s)) ELSE s
\* str.strip
Strip(s) == LStrip(RStrip(s))

ReasonNoTariffs == "Resultatet saknar tariffer och kan darfor inte sparas."
ReasonNoCompany == "Resultatet saknar foretagsnamn och kan darfor inte sparas."
ReasonNoComponents == "Resultatet saknar prismoduler och kan darfor inte sparas."

GuardOk == [ok |-> TRUE, reason |-> ""]
GuardFail(reason) == [ok |-> FALSE, reason |-> reason]

\* BlankName without the strip: only the empty name is blank
BlankNameNoStrip(name) == name = <<>>

\* not tariff.company_name or not tariff.company_name.strip()
BlankName(name) == name = <<>> \/ Strip(name) = <<>>

\* len(element.components) for an element that is present and has components
CountOf(el) == IF el # <<>> /\ el[1].components # <<>> THEN Len(el[1].components) ELSE 0
ComponentCount(t) == CountOf(t.fixedPrice) + CountOf(t.energyPrice) + CountOf(t.powerPrice)

\* TariffReason that counts the components before it looks at the name
TariffReasonCountFirst(t) ==
    IF ComponentCount(t) = 0 THEN ReasonNoComponents
    ELSE IF BlankName(t.companyName) THEN ReasonNoCompany
    ELSE ""

\* the body of the loop for one tariff: the reason it returns with, or ""
TariffReason(t) ==
    IF BlankName(t.companyName) THEN ReasonNoCompany
    ELSE IF ComponentCount(t) = 0 THEN ReasonNoComponents
    ELSE ""

RECURSIVE GuardLoop(_, _)
GuardLoop(tariffs, i) ==
    IF i > Len(tariffs) THEN GuardOk
    ELSE IF TariffReason(tariffs[i]) # "" THEN GuardFail(TariffReason(tariffs[i]))
    ELSE GuardLoop(tariffs, i + 1)

CheckTariffsResponse(resp) ==
    IF resp.tariffs = <<>> THEN GuardFail(ReasonNoTariffs) ELSE GuardLoop(resp.tariffs, 1)

----------------------------------------------------------------------------
(* Characters: str.lower and the code points that order strings.  A text   *)
(* examined character by character is a sequence of one-character strings; *)
(* "ae", "oe", "AE", "OE" stand for a-umlaut and o-umlaut, small and        *)
(* capital, "sup2" for the superscript two and "grave" for the backquote    *)

\* the printable ASCII characters in code order, from the blank (32) on
Ascii ==
    <<" ", "!", "\"", "#", "$", "%", "&", "'", "(", ")", "*", "+", ",", "-",
      ".", "/", "0", "1", "2", "3", "4", "5", "6", "7", "8", "9", ":",
      ";", "<", "=", ">", "?", "@", "A", "B", "C", "D", "E", "F", "G",
      "H", "I", "J", "K", "L", "M", "N", "O", "P", "Q", "R", "S", "T",
      "U", "V", "W", "X", "Y", "Z", "[", "\\", "]", "^", "_", "grave", "a",
      "b", "c", "d", "e", "f", "g", "h", "i", "j", "k", "l", "m", "n",
      "o", "p", "q", "r", "s", "t", "u", "v", "w", "x", "y", "z", "{",
      "|", "}", "~">>

AsciiIndex(c) == CHOOSE i \in 1..Len(Ascii) : Ascii[i] = c

\* ord(c)
Code(c) ==
    CASE c = "sup2" -> 178
      [] c = "AE" -> 196
      [] c = "OE" -> 214
      [] c = "ae" -> 228
      [] c = "oe" -> 246
      [] OTHER -> 31 + AsciiIndex(c)

IsUpper(c) == c \in {"AE", "OE"} \/ (\E i \in 34..59 : Ascii[i] = c)

\* str.lower, one character
LowerChar(c) ==
    CASE c = "AE" -> "ae"
      [] c = "OE" -> "oe"
      [] c \notin {"AE", "OE"} /\ IsUpper(c) -> Ascii[AsciiIndex(c) + 32]
      [] OTHER -> c

\* str.lower
Lower(s) == [i \in 1..Len(s) |-> LowerChar(s[i])]

\* k in s, for strings
Contains(s, k) ==
    \E i \in 0..(Len(s) - Len(k)) : SubSeq(s, i + 1, i + Len(k)) = k

----------------------------------------------------------------------------
(* tariff_guard.check_el_tariff_text *)

KEYWORDS ==
    {<<"e", "l", "n", "ae", "t">>,
     <<"e", "l", "n", "ae", "t", "s">>,
     <<"e", "l", "n", "ae", "t", "s", "b", "o", "l", "a", "g">>,
     <<"e", "l", "n", "ae", "t", "s", "t", "a", "r", "i", "f", "f">>,
     <<"e", "l", "n", "ae", "t", "s", "t", "a", "r", "i", "f", "f", "e", "r">>,
     <<"n", "ae", "t", "a", "v", "g", "i", "f", "t">>,
     <<"n", "ae", "t", "a", "v", "g", "i", "f", "t", "e", "r">>,
     <<"oe", "v", "e", "r", "f", "oe", "r", "i", "n", "g", "s", "a", "v", "g", "i", "f", "t">>,
     <<"oe", "v", "e", "r", "f", "oe", "r", "i", "n", "g", "s", "a", "v", "g", "i", "f", "t", "e", "r">>,
     <<"t", "a", "r", "i", "f", "f">>,
     <<"t", "a", "r", "i", "f", "f", "e", "r">>,
     <<"e", "f", "f", "e", "k", "t">>,
     <<"e", "f", "f", "e", "k", "t", "a", "v", "g", "i", "f", "t">>,
     <<"e", "f", "f", "e", "k", "t", "a", "v", "g", "i", "f", "t", "e", "r">>,
     <<"a", "b", "o", "n", "n", "e", "m", "a", "n", "g">>,
     <<"s", "ae", "k", "r", "i", "n", "g">>,
     <<"f", "oe", "r", "b", "r", "u", "k", "n", "i", "n", "g">>,
     <<"e", "n", "e", "r", "g", "i", "p", "r", "i", "s">>,
     <<"e", "n", "e", "r", "g", "i", "a", "v", "g", "i", "f", "t">>,
     <<"k", "w", "h">>,
     <<"k", "w">>,
     <<"k", "v", "a", "r">>,
     <<"oe", "r", "e">>,
     <<"k", "r", "/", "k", "w", "h">>,
     <<"k", "r", "/", "k", "w">>,
     <<"r", "i", "s", "e">>,
     <<"e", "l", "n", "ae", "t", "e", "t">>}

STRONG_KEYWORDS ==
    {<<"e", "l", "n", "ae", "t">>,
     <<"e", "l", "n", "ae", "t", "s", "t", "a", "r", "i", "f", "f">>,
     <<"n", "ae", "t", "a", "v", "g", "i", "f", "t">>,
     <<"oe", "v", "e", "r", "f", "oe", "r", "i", "n", "g", "s", "a", "v", "g", "i", "f", "t">>,
     <<"e", "f", "f", "e", "k", "t", "a", "v", "g", "i", "f", "t">>,
     <<"k", "w", "h">>,
     <<"k", "w">>,
     <<"k", "r", "/", "k", "w", "h">>,
     <<"k", "r", "/", "k", "w">>,
     <<"t", "a", "r", "i", "f", "f">>}

ReasonNotTariff ==
    "Innehallet verkar inte beskriva en elnats-/effekttariff. Skicka endast elnatsbolagsdata (tariffer, natavgifter, kWh/kW-priser)."

\* _keyword_hits without the lower-casing
KeywordHitsNoLower(t) == {keyword \in KEYWORDS : Contains(t, keyword)}
\* _keyword_hits
KeywordHits(t) == {keyword \in KEYWORDS : Contains(Lower(t), keyword)}

CheckElTariffText(t) ==
    LET hits == KeywordHits(t)
        strong_hit == \E keyword \in STRONG_KEYWORDS : keyword \in hits
    IN  IF strong_hit /\ Cardinality(hits) >= 2 THEN GuardOk ELSE GuardFail(ReasonNotTariff)

----------------------------------------------------------------------------
(* The texts the text guard is run on: up to MaxFragments pieces of words   *)

MaxFragments == 3

Fragments ==
    {<<"k">>,
     <<"W">>,
     <<"h">>,
     <<"k", "w">>,
     <<"T", "a", "r", "i", "f", "f">>,
     <<"e", "r">>,
     <<"e", "f", "f", "e", "k", "t">>,
     <<"a", "v", "g", "i", "f", "t">>,
     <<" ">>,
     <<"OE", "r", "e">>,
     <<"e", "l", "n", "ae", "t">>,
     <<"s">>,
     <<"x">>}

RECURSIVE Joined(_)
Joined(n) ==
    IF n = 0 THEN {<<>>}
    ELSE Joined(n - 1) \cup {t \o f : t \in Joined(n - 1), f \in Fragments}

GuardTexts == Joined(MaxFragments)


----------------------------------------------------------------------------
(* The documents the normalization is run on: a base tariff and documents   *)
(* that differ from it in one place                                        *)

MaxTariffs == 2
MaxCalls == 2

With(obj, k, v) == JObj(PutPair(obj.a, W(k), v))
Without(obj, k) == JObj(SelectSeq(obj.a, LAMBDA pr : pr.s # W(k)))

SourceId == S("source-id")

BasePrice ==
    JObj(<<P("priceExVat", JFloat("0.2")), P("priceIncVat", S("0.20")),
           P("currency", S("SEK"))>>)

BaseComponent ==
    JObj(<<P("id", SourceId), P("name", S("Fee")), P("type", S("fixed")),
           P("price", BasePrice), P("unit", S("kWh")), P("pricedPeriod", S("P1M"))>>)

PlainActivePeriod ==
    JObj(<<P("fromIncluding", S("06:00")), P("toExcluding", S("22:00"))>>)
WeekdayActivePeriod ==
    With(PlainActivePeriod, "calendarPatternReferences",
         JObj(<<P("include", JArr(<<S("weekdays")>>))>>))

BareRecurring == JObj(<<P("activePeriods", JArr(<<PlainActivePeriod>>))>>)

RecurringOf(ap) == JArr(<<JObj(<<P("reference", S("peak")), P("activePeriods", JArr(<<ap>>))>>)>>)

PeakSettings ==
    JObj(<<P("peakFunction", S("peak(main)")),
           P("numberOfPeaksForAverageCalculation", JNum(3))>>)

\* prices given once as a JSON number and once as the same text quoted
PriceLiterals == {"0.20", "56.25", "1e-400"}

ComponentDocs ==
    {BaseComponent, Without(BaseComponent, "id"), Without(BaseComponent, "price")}
    \cup {With(BaseComponent, "unit", u) : u \in {S("kW"), S("MW"), JStr(<<>>), JNull}}
    \cup {Without(BaseComponent, "unit")}
    \cup {With(BaseComponent, "type", t) : t \in {S("peak"), S("Fixed"), JNull}}
    \cup {Without(BaseComponent, "type")}
    \cup {With(BaseComponent, "price", With(BasePrice, "currency", c)) :
             c \in {S("EUR"), S("USD"), JNull}}
    \cup {With(BaseComponent, "price", Without(BasePrice, "currency"))}
    \cup {With(BaseComponent, "price", With(BasePrice, "priceExVat", x)) :
             x \in {JNum(45), S("56.25"), S("n/a")}}
    \cup {With(BaseComponent, "price",
                JObj(<<P("priceExVat", FloatOfLiteral(lit)), P("priceIncVat", S(lit))>>)) :
             lit \in PriceLiterals}
    \cup {With(BaseComponent, "recurringPeriods", RecurringOf(ap)) :
             ap \in {PlainActivePeriod, WeekdayActivePeriod}}
    \cup {With(BaseComponent, "peakIdentificationSettings", ps) :
             ps \in {PeakSettings, JObj(<<>>), JNull,
                     With(PeakSettings, "numberOfPeaksForAverageCalculation", JNum(0)),
                     Without(PeakSettings, "numberOfPeaksForAverageCalculation")}}
    \cup {With(BaseComponent, "price", pr) :
             pr \in {JObj(<<>>), JNull, Without(BasePrice, "priceExVat"),
                     Without(BasePrice, "priceIncVat")}}
    \cup {With(BaseComponent, "reference", S("night"))}
    \cup {With(BaseComponent, "recurringPeriods", JArr(<<rp>>)) :
             rp \in {BareRecurring, With(BareRecurring, "frequency", S("P1W"))}}
    \cup {With(BaseComponent, "validPeriod", vp) :
             vp \in {JObj(<<P("fromIncluding", S("2026-01-01"))>>), JNull}}

ElementOf(comps) == JObj(<<P("id", SourceId), P("name", S("Fast")), P("components", JArr(comps))>>)
BaseElement == ElementOf(<<BaseComponent>>)

ElementDocs ==
    {ElementOf(<<c>>) : c \in ComponentDocs}
    \cup {ElementOf(<<>>), ElementOf(<<BaseComponent, BaseComponent>>),
          JObj(<<>>), JObj(<<P("name", S("Fast"))>>), JNull,
          JObj(<<P("components", JArr(<<>>))>>)}

BaseTariff ==
    JObj(<<P("id", SourceId), P("name", S("16A")),
           P("validPeriod", JObj(<<P("fromIncluding", S("2025-01-01"))>>)),
           P("companyName", S("Acme")),
           P("fixedPrice", BaseElement)>>)

NoCompany == Without(BaseTariff, "companyName")
NoName == Without(BaseTariff, "name")
NoFrom == With(BaseTariff, "validPeriod", JObj(<<P("toExcluding", S("2026-01-01"))>>))

TariffDocs ==
    {BaseTariff, NoCompany, NoName, NoFrom, Without(BaseTariff, "validPeriod"),
     Without(BaseTariff, "fixedPrice"), Without(BaseTariff, "id")}
    \cup {With(BaseTariff, "validPeriod", vp) :
             vp \in {JObj(<<P("fromIncluding", S("20250101")),
                            P("toExcluding", S("2026-01-01"))>>),
                     JObj(<<P("fromIncluding", S("January"))>>)}}
    \cup {With(BaseTariff, "direction", d) : d \in {S("production"), S("both"), JNull}}
    \cup {With(BaseTariff, "timeZone", S("Europe/Helsinki")),
          With(BaseTariff, "billingPeriod", S("P1Y")),
          With(BaseTariff, "companyOrgNo", S("556677-8899"))}
    \cup {With(BaseTariff, "companyName", c) : c \in {JStr(<<>>), JStr(<<SP>>), JNull}}
    \cup {With(BaseTariff, "fixedPrice", el) : el \in ElementDocs}
    \cup {With(BaseTariff, "energyPrice", BaseElement)}
    \cup {With(With(BaseTariff, "fixedPrice", JNull), "powerPrice", BaseElement)}

\* the tariffs joined into longer lists
ListTariffs == {BaseTariff, NoCompany, NoName, NoFrom}

RECURSIVE TariffLists(_)
TariffLists(n) ==
    IF n = 0 THEN {<<>>}
    ELSE LET shorter == TariffLists(n - 1) IN
         shorter \cup {Append(l, t) : l \in shorter, t \in ListTariffs}

DocOf(tariffs) == JObj(<<P("tariffs", JArr(tariffs))>>)

Docs ==
    {DocOf(<<t>>) : t \in TariffDocs}
    \cup {DocOf(l) : l \in TariffLists(MaxTariffs)}
    \cup {JObj(<<>>),
          JObj(<<P("tariffs", JArr(<<BaseTariff>>)), P("warnings", JArr(<<S("check")>>))>>),
          JObj(<<P("tariffs", JArr(<<BaseTariff>>)), P("warnings", S("none"))>>),
          JObj(<<P("tariffs", JArr(<<BaseTariff>>)), P("calendarPatterns", JArr(<<>>))>>),
          JObj(<<P("tariffs", JArr(<<BaseTariff>>)),
                 P("calendarPatterns",
                   JArr(<<JObj(<<P("reference", S("summer")),
                                 P("frequency", S("P1Y"))>>)>>))>>)}

----------------------------------------------------------------------------
(* api/explore.py: _normalize_catalogue.  The strings of a catalogue are    *)
(* sequences of characters; the URLs carry no user information and no port  *)

Skip == [kind |-> "skip", api |-> <<>>]
Raise == [kind |-> "raise", api |-> <<>>]
Accept(api) == [kind |-> "api", api |-> <<api>>]

\* str(n) for an integer
RECURSIVE IntStr(_)
IntStr(n) ==
    IF n < 0 THEN <<"-">> \o IntStr(0 - n)
    ELSE IF n < 10 THEN <<Ascii[17 + n]>>
    ELSE IntStr(n \div 10) \o <<Ascii[17 + (n % 10)]>>

\* str(value) for the scalars an alias carries
PyStr(v) ==
    CASE v.t = "str" -> v.s
      [] v.t = "num" -> IntStr(v.n)
      [] v.t = "float" -> v.s
      [] v.t = "true" -> <<"T", "r", "u", "e">>
      [] v.t = "false" -> <<"F", "a", "l", "s", "e">>
      [] v.t = "null" -> <<"N", "o", "n", "e">>

IsList(v) == v.t = "arr"

\* the dict items of a list
DictItems(list) == SelectSeq(list, IsObj)

ContainerKeys ==
    <<"apis", "items", "data", "results", "entries", "catalogue">>

RECURSIVE FirstList(_, _)
FirstList(data, keys) ==
    IF keys = <<>> THEN <<>>
    ELSE IF Has(data, Head(keys)) /\ IsList(Get(data, Head(keys)))
         THEN DictItems(Get(data, Head(keys)).a)
         ELSE FirstList(data, Tail(keys))

\* _extract_catalogue_items
ExtractCatalogueItems(data) ==
    IF IsList(data) THEN DictItems(data.a)
    ELSE IF IsObj(data) THEN FirstList(data, ContainerKeys)
    ELSE <<>>

\* _pick_first: the first alias whose value is neither None nor ""
RECURSIVE PickFirst(_, _)
PickFirst(item, keys) ==
    IF keys = <<>> THEN JNull
    ELSE IF Has(item, Head(keys)) /\ Get(item, Head(keys)) \notin {JNull, JStr(<<>>)}
         THEN Get(item, Head(keys))
         ELSE PickFirst(item, Tail(keys))

\* str.isdigit, one character: the decimal digits and the superscript two
IsDigit(c) == c = "sup2" \/ (\E i \in 17..26 : Ascii[i] = c)
\* the characters int() reads as a digit
IsDecimal(c) == \E i \in 17..26 : Ascii[i] = c

RECURSIVE DecimalValue(_)
DecimalValue(digits) ==
    IF digits = <<>> THEN 0
    ELSE 10 * DecimalValue(SubSeq(digits, 1, Len(digits) - 1))
         + (AsciiIndex(digits[Len(digits)]) - 17)

\* int(digits) of a string of isdigit characters
IntOfDigits(digits) ==
    IF \A i \in 1..Len(digits) : IsDecimal(digits[i])
    THEN Ok(<<DecimalValue(digits)>>)
    ELSE Fail

\* int(value) of a float: truncation; infinity and nan raise
IntOfFloat(value) ==
    CASE value = JFloat("2.5") -> Ok(<<2>>)
      [] value = JFloat("inf") -> Fail
      [] value = JFloat("nan") -> Fail

\* _coerce_int
CoerceInt(value) ==
    CASE value.t \in {"true", "false", "null"} -> Ok(<<>>)
      [] value.t = "num" -> Ok(<<value.n>>)
      [] value.t = "float" -> IntOfFloat(value)
      [] value.t = "str" ->
            LET digits == SelectSeq(value.s, IsDigit) IN
            IF digits # <<>> THEN IntOfDigits(digits) ELSE Ok(<<>>)
      [] OTHER -> Ok(<<>>)

\* the first position of one of the characters in s, 0 if none
RECURSIVE FindAny(_, _, _)
FindAny(s, chars, i) ==
    IF i > Len(s) THEN 0
    ELSE IF s[i] \in chars THEN i ELSE FindAny(s, chars, i + 1)

\* the characters before the first of chars
Before(s, chars) ==
    LET cut == FindAny(s, chars, 1) IN IF cut = 0 THEN s ELSE SubSeq(s, 1, cut - 1)

After(s, n) == SubSeq(s, n + 1, Len(s))

SchemeChars == {Ascii[i] : i \in 34..59} \cup {Ascii[i] : i \in 66..91}
                   \cup {Ascii[i] : i \in 17..26} \cup {"+", "-", "."}
IsAlpha(c) == c \in {Ascii[i] : i \in 34..59} \cup {Ascii[i] : i \in 66..91}

\* urlsplit: the scheme and what follows its colon
UrlScheme(url) ==
    LET i == Find(url, ":") IN
    IF i > 1 /\ IsAlpha(url[1]) /\ \A j \in 1..(i - 1) : url[j] \in SchemeChars
    THEN [scheme |-> Lower(SubSeq(url, 1, i - 1)), rest |-> After(url, i)]
    ELSE [scheme |-> <<>>, rest |-> url]

\* urlparse(url).hostname, absent when there is no network location
UrlHostname(url) ==
    LET rest == UrlScheme(url).rest IN
    IF Len(rest) >= 2 /\ SubSeq(rest, 1, 2) = <<"/", "/">>
    THEN LET netloc == Before(After(rest, 2), {"/", "?", "#"}) IN
         IF netloc # <<>> THEN <<Lower(netloc)>> ELSE <<>>
    ELSE <<>>

\* str.replace(old, ""): every occurrence, left to right
RECURSIVE Remove(_, _)
Remove(s, old) ==
    IF Len(s) < Len(old) THEN s
    ELSE IF SubSeq(s, 1, Len(old)) = old THEN Remove(After(s, Len(old)), old)
    ELSE <<Head(s)>> \o Remove(Tail(s), old)

Www == <<"w", "w", "w", ".">>

\* the name of an entry no alias names
FallbackName(api_url) ==
    LET hostname == IF UrlHostname(api_url) # <<>> THEN UrlHostname(api_url)[1] ELSE api_url
    IN  Remove(hostname, Www)

RECURSIVE SkipSlashes(_)
SkipSlashes(s) == IF s # <<>> /\ Head(s) \in {"/", "\\"} THEN SkipSlashes(Tail(s)) ELSE s

HttpSchemes == {<<"h", "t", "t", "p">>, <<"h", "t", "t", "p", "s">>}

\* the parts pydantic's HttpUrl reads: the slashes after the scheme are
\* skipped, the host runs to the next "/", "?" or "#"
HttpParts(url) ==
    LET split == UrlScheme(url)
        authority == SkipSlashes(split.rest)
        host == Before(authority, {"/", "\\", "?", "#"})
    IN  [scheme |-> split.scheme, host |-> Lower(host), tail |-> After(authority, Len(host))]

ValidHttpUrl(url) == HttpParts(url).scheme \in HttpSchemes /\ HttpParts(url).host # <<>>

\* HttpUrl(url): the host in lower case, "/" for an empty path
HttpUrl(url) ==
    LET parts == HttpParts(url) IN
    parts.scheme \o <<":", "/", "/">> \o parts.host
        \o (IF parts.tail # <<>> /\ Head(parts.tail) = "/" THEN parts.tail
            ELSE <<"/">> \o parts.tail)


UrlAliases ==
    <<"api_url", "apiUrl", "base_url", "baseUrl", "url", "endpoint",
      "rise_api", "riseApi", "tariff_api_url">>

NameAliases ==
    <<"name", "title", "company", "companyName", "company_name",
      "utility", "network_company", "networkCompany", "grid_owner",
      "operator">>

\* str(value) if value else None
StrOrNone(value) == IF Truthy(value) THEN <<PyStr(value)>> ELSE <<>>

\* the count an entry states, or the length of its tariffs list
TariffCountOf(item) ==
    LET tariff_count == PickFirst(item, <<"tariff_count", "tariffCount", "count">>) IN
    IF tariff_count = JNull /\ Has(item, "tariffs") /\ IsList(Get(item, "tariffs"))
    THEN JNum(Len(Get(item, "tariffs").a))
    ELSE tariff_count

\* CatalogueApi(...): both URLs are validated
CatalogueApi(name, api_url, item, tariff_count) ==
    LET source_url == StrOrNone(PickFirst(item, <<"source_url", "sourceUrl", "homepage", "website", "userDocUrlOrEmail">>)) IN
    IF ~ValidHttpUrl(api_url) \/ (source_url # <<>> /\ ~ValidHttpUrl(source_url[1]))
    THEN Skip
    ELSE Accept([name |-> name,
                 api_url |-> HttpUrl(api_url),
                 description |-> StrOrNone(PickFirst(item, <<"description", "summary", "notes">>)),
                 region |-> StrOrNone(PickFirst(item, <<"region", "area", "city", "municipality", "county">>)),
                 tariff_count |-> tariff_count,
                 source_url |-> IF source_url = <<>> THEN <<>> ELSE <<HttpUrl(source_url[1])>>,
                 company_org_no |-> StrOrNone(PickFirst(item, <<"company_org_no", "companyOrgNo", "orgNo">>)),
                 metering_point_id_from |-> StrOrNone(PickFirst(item, <<"meteringPointIdFrom", "metering_point_id_from">>)),
                 metering_point_id_to |-> StrOrNone(PickFirst(item, <<"meteringPointIdTo", "metering_point_id_to">>))])

\* the body of the loop of _normalize_catalogue for one item
CatalogueEntry(item) ==
    LET api_url == PickFirst(item, UrlAliases) IN
    IF ~Truthy(api_url) THEN Skip
    ELSE LET picked == PickFirst(item, NameAliases)
             name == IF Truthy(picked) THEN PyStr(picked) ELSE FallbackName(PyStr(api_url))
             tariff_count == CoerceInt(TariffCountOf(item))
         IN  IF ~tariff_count.ok THEN Raise
             ELSE CatalogueApi(name, PyStr(api_url), item, tariff_count.v)

\* a <= b for strings: by the code points, a prefix first
RECURSIVE LeqStr(_, _)
LeqStr(a, b) ==
    IF a = <<>> THEN TRUE
    ELSE IF b = <<>> THEN FALSE
    ELSE IF Head(a) = Head(b) THEN LeqStr(Tail(a), Tail(b))
    ELSE Code(Head(a)) < Code(Head(b))

\* the sort key without the lower-casing
SortKeyNoLower(api) == api.name
\* key=lambda api: api.name.lower()
SortKey(api) == Lower(api.name)

\* list.sort is stable: an entry goes after the entries whose key is not greater
RECURSIVE InsertByKey(_, _)
InsertByKey(sorted, api) ==
    IF sorted = <<>> THEN <<api>>
    ELSE IF LeqStr(SortKey(sorted[Len(sorted)]), SortKey(api)) THEN Append(sorted, api)
    ELSE Append(InsertByKey(SubSeq(sorted, 1, Len(sorted) - 1), api), sorted[Len(sorted)])

RECURSIVE SortApis(_)
SortApis(list) ==
    IF list = <<>> THEN <<>>
    ELSE InsertByKey(SortApis(SubSeq(list, 1, Len(list) - 1)), list[Len(list)])

\* the loop over the items: an exception outside the try ends the call
RECURSIVE CatalogueLoop(_, _, _)
CatalogueLoop(items, i, list) ==
    IF i > Len(items) THEN [status |-> "returned", list |-> SortApis(list)]
    ELSE Bind(CatalogueEntry(items[i]), LAMBDA entry :
             CASE entry.kind = "raise" -> [status |-> "raised", list |-> <<>>]
               [] entry.kind = "skip" -> CatalogueLoop(items, i + 1, list)
               [] entry.kind = "api" -> CatalogueLoop(items, i + 1, list \o entry.api))

\* the outcome of the call, with the items the loop ran over
NormalizeCatalogue(data) ==
    Bind(ExtractCatalogueItems(data), LAMBDA items :
        Bind(CatalogueLoop(items, 1, <<>>), LAMBDA done :
            [status |-> done.status, list |-> done.list, items |-> items]))

----------------------------------------------------------------------------
(* The catalogues the normalization is run on *)

MaxEntries == 3

UrlX == <<"h", "t", "t", "p", "s", ":", "/", "/", "x", ".", "s", "e", "/", "v", "0">>
UrlWwwY == <<"h", "t", "t", "p", "s", ":", "/", "/", "w", "w", "w", ".", "y", ".", "s", "e">>
UrlInnerWww == <<"h", "t", "t", "p", "s", ":", "/", "/", "a", ".", "w", "w", "w", ".", "x", ".", "s", "e">>
UrlCapital == <<"H", "T", "T", "P", "S", ":", "/", "/", "X", ".", "s", "e">>

Named(name, url) == JObj(<<P("name", JStr(name)), P("url", JStr(url))>>)

Entries ==
    {Named(<<"B", "e", "t", "a">>, UrlX),
     JObj(<<P("title", JStr(<<"a", "l", "p", "h", "a">>)), P("api_url", JStr(UrlX)),
            P("count", JStr(<<"1", "2", " ", "s", "t">>))>>),
     JObj(<<P("apiUrl", JStr(UrlWwwY)), P("region", JStr(<<"Y">>))>>),
     JObj(<<P("apiUrl", JStr(UrlInnerWww))>>),
     JObj(<<P("name", JStr(<<>>)), P("url", JStr(UrlCapital)),
            P("tariffs", JArr(<<JObj(<<>>)>>))>>),
     JObj(<<P("name", JStr(<<"G", "a", "m", "m", "a">>))>>),
     Named(<<"D", "e", "l", "t", "a">>, <<"x", ".", "s", "e">>),
     With(Named(<<"E", "p", "s">>, UrlX), "count", JFloat("inf")),
     With(Named(<<"E", "p", "s">>, UrlX), "count", JStr(<<"sup2">>)),
     With(Named(<<"Z", "e", "t", "a">>, UrlX), "website", JStr(<<"i", "n", "f", "o", "@", "x", ".", "s", "e">>)),
     JObj(<<P("api_url", JNum(0)), P("url", JStr(UrlX))>>),
     JNum(1)}

RECURSIVE EntryLists(_)
EntryLists(n) ==
    IF n = 0 THEN {<<>>}
    ELSE EntryLists(n - 1) \cup {Append(l, e) : l \in EntryLists(n - 1), e \in Entries}

Catalogues ==
    {JArr(l) : l \in EntryLists(MaxEntries)}
    \cup {JObj(<<P(k, JArr(l))>>) : k \in {"apis", "catalogue", "other"}, l \in EntryLists(1)}
    \cup {JObj(<<P("data", JStr(<<"x">>)), P("results", JArr(l))>>) : l \in EntryLists(1)}
    \cup {JObj(<<P("apis", JArr(<<JNum(1)>>)), P("items", JArr(l))>>) : l \in EntryLists(1)}
    \cup {JNull, JTrue, JNum(5), JStr(<<"x">>), JObj(<<>>)}

----------------------------------------------------------------------------
(* Normalization as a state machine: _parse_response normalizes a document  *)
(* of the source, or the serialized form of the response it returned        *)

NoVerdict == [ok |-> FALSE, reason |-> "none"]
NoBody == [valid |-> FALSE, response |-> NoResponse]

InitApiVars ==
    /\ body = NoBody
    /\ verdict = NoVerdict
    /\ status = 0
    /\ store = <<>>
    /\ exported = <<>>

NoApis == [status |-> "none", list |-> <<>>, items |-> <<>>]

NoReply ==
    [status |-> "none", success |-> FALSE, apis |-> <<>>, warning |-> "", error |-> FALSE]

InitCacheVars ==
    /\ cache = <<>>
    /\ reply = NoReply
    /\ calls = 0

InitExploreVars ==
    /\ textIn = <<>>
    /\ catalogue = JNull
    /\ apis = NoApis
    /\ InitCacheVars

InitNormVars ==
    /\ request = JNull
    /\ response = NoResponse
    /\ previous = NoResponse
    /\ origin = "none"
    /\ nextId = 0
    /\ clock = 0
    /\ issued = <<>>
    /\ graphs = <<>>

\* the identities of the entities of an element, a tariff, a response
ElementIds(el) ==
    IF el = <<>> THEN <<>>
    ELSE [i \in 1..Len(el[1].components) |-> el[1].components[i].id] \o <<el[1].id>>
TariffIds(t) ==
    ElementIds(t.fixedPrice) \o ElementIds(t.energyPrice) \o ElementIds(t.powerPrice)
    \o <<t.id>>
RECURSIVE ResponseIds(_, _)
ResponseIds(tariffs, i) ==
    IF i > Len(tariffs) THEN <<>>
    ELSE TariffIds(tariffs[i]) \o ResponseIds(tariffs, i + 1)

\* one call of the normalization part of _parse_response on data
\* an object: the call whose constructor made it (0 for the objects made when
\* the module is loaded) and its place in what that call built
Obj(call, kind, tariff, slot, index) ==
    [call |-> call, kind |-> kind, tariff |-> tariff, slot |-> slot, index |-> index]

\* the CalendarPattern objects of the module-level DEFAULT_CALENDAR_PATTERNS
DefaultPatternObjects ==
    {Obj(0, "pattern", 0, "module", k) : k \in 1..Len(DefaultCalendarPatterns)}

\* the objects _parse_element built for one price element of tariff i
ElementObjects(el, call, i, slot) ==
    IF el = <<>> THEN {}
    ELSE {Obj(call, "element", i, slot, 0)}
         \cup {Obj(call, "component", i, slot, j) : j \in 1..Len(el[1].components)}

\* the entity objects a response holds: the tariffs, elements and components
\* its call constructed, and the calendar patterns it was given, which the
\* list[CalendarPattern] field keeps as the instances they are
Graph(resp, call) ==
    UNION { {Obj(call, "tariff", i, "", 0)}
            \cup ElementObjects(resp.tariffs[i].fixedPrice, call, i, "fixedPrice")
            \cup ElementObjects(resp.tariffs[i].energyPrice, call, i, "energyPrice")
            \cup ElementObjects(resp.tariffs[i].powerPrice, call, i, "powerPrice") :
                i \in 1..Len(resp.tariffs) }
    \cup DefaultPatternObjects

NormalizeData(data, from, prev) ==
    /\ clock < MaxCalls
    /\ \E resp \in {Normalize(data, nextId, clock)} :
           /\ request' = data
           /\ response' = resp
           /\ previous' = prev
           /\ origin' = from
           /\ nextId' = nextId + resp.used
           /\ clock' = clock + 1
           /\ issued' = issued \o ResponseIds(resp.tariffs, 1)
           /\ graphs' = IF resp.status = "ok"
                        THEN Append(graphs, Graph(resp, clock + 1))
                        ELSE graphs

NormalizeCall(data, from, prev) ==
    /\ NormalizeData(data, from, prev)
    /\ UNCHANGED <<content, extraction, apiVars, exploreVars>>

ParseResponseNormalize == \E doc \in Docs : NormalizeCall(doc, "source", NoResponse)

\* the JSON form of the response (the API's answer) is normalized again
RenormalizeJson ==
    /\ response.status = "ok"
    /\ origin = "source"
    /\ \E dump \in {ModelDump(response, "json")} : NormalizeCall(dump, "json", response)

\* the Python form of the response (parse_text_streaming's result data) is
\* normalized again
RenormalizeDump ==
    /\ response.status = "ok"
    /\ origin = "source"
    /\ \E dump \in {ModelDump(response, "python")} :
           NormalizeCall(dump, "python", response)

InitNormalize ==
    /\ content = <<>>
    /\ extraction = NoExtraction
    /\ InitNormVars
    /\ InitApiVars
    /\ InitExploreVars

NextNormalize == ParseResponseNormalize \/ RenormalizeJson \/ RenormalizeDump

SpecNormalize == InitNormalize /\ [][NextNormalize]_vars

----------------------------------------------------------------------------
(* Extraction as a state machine: a model output arrives, _parse_response   *)
(* extracts the JSON value from it                                         *)

InitExtract ==
    /\ content \in Texts
    /\ extraction = NoExtraction
    /\ InitNormVars
    /\ InitApiVars
    /\ InitExploreVars

\* _parse_response on the text: the extraction, and the normalization of
\* the value it found
ParseResponse(text) ==
    \E ex \in {ExtractJson(text)} :
        /\ extraction' = ex
        /\ IF ex.status = "ok"
           THEN NormalizeData(ex.data[1], "source", NoResponse)
           ELSE UNCHANGED normVars

ParseResponseExtract ==
    /\ extraction.status = "none"
    /\ ParseResponse(content)
    /\ UNCHANGED <<content, apiVars, exploreVars>>

NextExtract == ParseResponseExtract

SpecExtract == InitExtract /\ [][NextExtract]_vars

----------------------------------------------------------------------------
(* The saved-results and export endpoints *)

MaxStore == 2

HttpOk == 200
HttpBadRequest == 400
HttpServerError == 500

\* a validated tariff as TariffsResponse.model_validate yields it
PricedComponent(ex) ==
    [id |-> Uuid(0), name |-> W("Fee"), description |-> <<>>, type |-> "fixed",
     reference |-> W("main"), validPeriod |-> <<>>,
     price |-> [priceExVat |-> ex, priceIncVat |-> ex, currency |-> "SEK"],
     unit |-> <<>>, pricedPeriod |-> <<>>, recurringPeriods |-> <<>>,
     peakIdentificationSettings |-> <<>>]
ElementWith(comps) ==
    <<[id |-> Uuid(0), name |-> W("Fast"), description |-> <<>>,
       costFunction |-> <<>>, components |-> comps]>>
TariffWith(company, fixed, energy, power) ==
    [id |-> Uuid(0), name |-> W("16A"), description |-> <<>>,
     validPeriod |-> [fromIncluding |-> 1, toExcluding |-> <<>>],
     timeZone |-> W("Europe/Stockholm"), lastUpdated |-> 0,
     companyName |-> company, companyOrgNo |-> <<>>, product |-> <<>>,
     direction |-> "consumption", billingPeriod |-> W("P1M"),
     fixedPrice |-> fixed, energyPrice |-> energy, powerPrice |-> power]

CompanyNames == {<<>>, <<SP>>, <<"Acme">>, <<SP, "Acme", SP>>}

GuardTariffs ==
    {TariffWith(c, f, e, p) :
        c \in CompanyNames,
        f \in {<<>>, ElementWith(<<>>), ElementWith(<<PricedComponent(Dec(0, 0))>>)},
        e \in {<<>>, ElementWith(<<PricedComponent(Dec(45, 0)), PricedComponent(Dec(2, 1))>>)},
        p \in {<<>>, ElementWith(<<>>)}}

RECURSIVE SeqsUpTo(_, _)
SeqsUpTo(set, n) ==
    IF n = 0 THEN {<<>>}
    ELSE LET shorter == SeqsUpTo(set, n - 1) IN
         shorter \cup {Append(l, t) : l \in shorter, t \in set}

ResponseOf(tariffs) ==
    [status |-> "ok", tariffs |-> tariffs, calendarPatterns |-> DefaultCalendarPatterns,
     warnings |-> <<>>, used |-> 0]

\* the bodies the guard is run on
GuardBodies ==
    {[valid |-> TRUE, response |-> ResponseOf(l)] : l \in SeqsUpTo(GuardTariffs, MaxTariffs)}

\* the tariffs of the bodies sent to the endpoints
GoodTariff == TariffWith(W("Acme"), ElementWith(<<PricedComponent(Dec(0, 0))>>), <<>>, <<>>)
ApiTariffs == {GoodTariff, TariffWith(<<SP>>, ElementWith(<<>>), <<>>, <<>>)}
ApiBodies ==
    {[valid |-> TRUE, response |-> ResponseOf(l)] : l \in SeqsUpTo(ApiTariffs, MaxTariffs)}
    \cup {NoBody}

\* save_result without the guard
SaveResultUnguarded(b) ==
    /\ Len(store) < MaxStore
    /\ body' = b
    /\ verdict' = NoVerdict
    /\ IF ~b.valid
       THEN /\ status' = HttpBadRequest
            /\ UNCHANGED store
       ELSE /\ status' = HttpOk
            /\ store' = Append(store, b.response)
    /\ UNCHANGED <<content, extraction, normVars, exported, exploreVars>>

\* POST /api/results/save
SaveResult(b) ==
    /\ Len(store) < MaxStore
    /\ body' = b
    /\ IF ~b.valid
       THEN /\ status' = HttpBadRequest
            /\ verdict' = NoVerdict
            /\ UNCHANGED store
       ELSE LET guard == CheckTariffsResponse(b.response) IN
            /\ verdict' = guard
            /\ IF ~guard.ok
               THEN /\ status' = HttpBadRequest
                    /\ UNCHANGED store
               ELSE /\ status' = HttpOk
                    /\ store' = Append(store, b.response)
    /\ UNCHANGED <<content, extraction, normVars, exported, exploreVars>>

\* POST /api/generate/json
GenerateJson(b) ==
    /\ body' = b
    /\ verdict' = NoVerdict
    /\ IF ~b.valid
       THEN /\ status' = HttpServerError
            /\ exported' = <<>>
       ELSE /\ status' = HttpOk
            /\ exported' = <<ModelDump(b.response, "json")>>
    /\ UNCHANGED <<content, extraction, normVars, store, exploreVars>>

InitApi ==
    /\ content = <<>>
    /\ extraction = NoExtraction
    /\ InitNormVars
    /\ InitApiVars
    /\ InitExploreVars

NextApi ==
    \/ \E b \in ApiBodies : SaveResult(b)
    \/ \E b \in ApiBodies : GenerateJson(b)

SpecApi == InitApi /\ [][NextApi]_vars

\* the guard alone, on a validated body
InitGuard ==
    /\ content = <<>>
    /\ extraction = NoExtraction
    /\ InitNormVars
    /\ body \in GuardBodies
    /\ verdict = NoVerdict
    /\ status = 0
    /\ store = <<>>
    /\ exported = <<>>
    /\ InitExploreVars

GuardCheck ==
    /\ verdict = NoVerdict
    /\ verdict' = CheckTariffsResponse(body.response)
    /\ UNCHANGED <<content, extraction, normVars, body, status, store, exported, exploreVars>>

NextGuard == GuardCheck

SpecGuard == InitGuard /\ [][NextGuard]_vars

\* the text guard alone
InitText ==
    /\ content = <<>>
    /\ extraction = NoExtraction
    /\ InitNormVars
    /\ InitApiVars
    /\ textIn \in GuardTexts
    /\ catalogue = JNull
    /\ apis = NoApis
    /\ InitCacheVars

TextCheck ==
    /\ verdict = NoVerdict
    /\ verdict' = CheckElTariffText(textIn)
    /\ UNCHANGED <<content, extraction, normVars, body, status, store, exported, exploreVars>>

NextText == TextCheck

SpecText == InitText /\ [][NextText]_vars

\* api/parse.py: the text endpoint, TariffParser.parse_text and
\* _parse_response.  The model's answer is an input of the step
MAX_TEXT_LENGTH == 100000

ParseTexts == Joined(MaxFragments - 1)

\* what the model call returns as message content
ModelOutputs ==
    { <<LB, RB>>,
      <<LB, Q, "tariffs", Q, COLON, SP, LK, RK, RB>>,
      TariffsX,
      TruncatedTariffsX,
      <<"a", COLON, SP>> }

InitParse ==
    /\ content = <<>>
    /\ extraction = NoExtraction
    /\ InitNormVars
    /\ InitApiVars
    /\ textIn \in ParseTexts
    /\ catalogue = JNull
    /\ apis = NoApis
    /\ InitCacheVars

\* parse_text: the length and blank checks, the API key, the model call and
\* _parse_response on its answer; a ValueError is answered with 400, any
\* other exception with 500
ParseText ==
    /\ status = 0
    /\ \E api_key \in BOOLEAN, answered \in BOOLEAN, out \in ModelOutputs :
           IF Len(textIn) > MAX_TEXT_LENGTH \/ Strip(textIn) = <<>>
           THEN /\ status' = HttpBadRequest
                /\ UNCHANGED <<content, extraction, normVars>>
           ELSE IF ~api_key \/ ~answered
           THEN /\ status' = HttpServerError
                /\ UNCHANGED <<content, extraction, normVars>>
           ELSE /\ content' = out
                /\ ParseResponse(out)
                /\ IF extraction'.status # "ok" THEN status' = HttpBadRequest
                   ELSE IF response'.status = "ok" THEN status' = HttpOk
                   ELSE status' \in {HttpBadRequest, HttpServerError}
    /\ UNCHANGED <<body, verdict, store, exported, exploreVars>>

NextParse == ParseText

SpecParse == InitParse /\ [][NextParse]_vars

\* the catalogue normalization alone
InitCatalogue ==
    /\ content = <<>>
    /\ extraction = NoExtraction
    /\ InitNormVars
    /\ InitApiVars
    /\ textIn = <<>>
    /\ catalogue \in Catalogues
    /\ apis = NoApis
    /\ InitCacheVars

NormalizeCatalogueCall ==
    /\ apis = NoApis
    /\ apis' = NormalizeCatalogue(catalogue)
    /\ UNCHANGED <<content, extraction, normVars, apiVars, textIn, catalogue, cacheVars>>

NextCatalogue == NormalizeCatalogueCall

SpecCatalogue == InitCatalogue /\ [][NextCatalogue]_vars

----------------------------------------------------------------------------
(* api/explore.py: get_catalogue and the module cache _catalogue_cache.     *)
(* "aa" stands for the a with a ring in the texts of the fallback list      *)

\* _fallback_catalogue: the two entries, each built by CatalogueApi(...)
FallbackGoteborg ==
    CatalogueApi(<<"G", "oe", "t", "e", "b", "o", "r", "g", " ", "E", "n", "e", "r",
                  "g", "i", " ", "N", "ae", "t", " ", "A", "B">>,
                 <<"h", "t", "t", "p", "s", ":", "/", "/", "a", "p", "i", ".", "g", "o",
                   "t", "e", "b", "o", "r", "g", "e", "n", "e", "r", "g", "i", ".", "c",
                   "l", "o", "u", "d", "/", "g", "r", "i", "d", "t", "a", "r", "i", "f",
                   "f", "/", "v", "0">>,
                 JObj(<<P("description",
                          JStr(<<"G", "oe", "t", "e", "b", "o", "r", "g", " ", "m", "e", "d", " ",
                               "o", "m", "n", "e", "j", "d", ".", " ", "H", "a", "r", " ", "t", "i",
                               "d", "s", "d", "i", "f", "f", "e", "r", "e", "n", "t", "i", "e", "r",
                               "a", "d", "e", " ", "t", "a", "r", "i", "f", "f", "e", "r", " ", "(",
                               "h", "oe", "g", "l", "a", "s", "t", "/", "l", "aa", "g", "l", "a",
                               "s", "t", ",", " ", "v", "i", "n", "t", "e", "r", "/", "s", "o", "m",
                               "m", "a", "r", ")", ".">>)),
                        P("region", JStr(<<"G", "oe", "t", "e", "b", "o", "r", "g">>))>>),
                 <<12>>).api[1]

FallbackLinkoping ==
    CatalogueApi(<<"T", "e", "k", "n", "i", "s", "k", "a", " ", "v", "e", "r", "k", "e",
                  "n", " ", "L", "i", "n", "k", "oe", "p", "i", "n", "g", " ", "N",
                  "ae", "t", " ", "A", "B">>,
                 <<"h", "t", "t", "p", "s", ":", "/", "/", "a", "p", "i", ".", "t", "e",
                   "k", "n", "i", "s", "k", "a", "v", "e", "r", "k", "e", "n", ".", "n",
                   "e", "t", "/", "s", "u", "b", "s", "c", "r", "i", "p", "t", "i", "o",
                   "n", "/", "p", "u", "b", "l", "i", "c", "/", "v", "0">>,
                 JObj(<<P("description",
                          JStr(<<"L", "i", "n", "k", "oe", "p", "i", "n", "g", " ", "m", "e", "d",
                               " ", "o", "m", "n", "e", "j", "d", ".", " ", "1", "7", "1", " ", "t",
                               "a", "r", "i", "f", "f", "e", "r", " ", "f", "oe", "r", " ", "o",
                               "l", "i", "k", "a", " ", "k", "u", "n", "d", "t", "y", "p", "e", "r",
                               ".">>)),
                        P("region", JStr(<<"L", "i", "n", "k", "oe", "p", "i", "n", "g">>))>>),
                 <<171>>).api[1]

FallbackCatalogue == <<FallbackGoteborg, FallbackLinkoping>>

WarningCached == "Katalogen kunde inte naas. Visar senast haemtade data."
WarningFallback == "Katalogen kunde inte naas. Visar statisk fallback-lista."

\* CatalogueResponse(success=True, apis=..., warning=..., error=...)
CatalogueResponse(list, warning, error) ==
    [status |-> "returned", success |-> TRUE, apis |-> list, warning |-> warning,
     error |-> error]

\* fetch_json raised: the request failed or the body is not JSON
FetchError == [t |-> "error", s |-> <<>>, n |-> 0, a |-> <<>>]

MaxFetches == 4

\* what fetch_json gives the calls: a failure, catalogues of one and of two
\* valid entries, catalogues that normalize to nothing and one that makes
\* the normalization raise
Fetched ==
    {FetchError, JArr(<<>>), JObj(<<>>),
     JArr(<<Named(<<"B", "e", "t", "a">>, UrlX)>>),
     JArr(<<Named(<<"B", "e", "t", "a">>, UrlX),
            JObj(<<P("title", JStr(<<"a", "l", "p", "h", "a">>)), P("api_url", JStr(UrlX))>>)>>),
     JArr(<<JObj(<<P("apiUrl", JStr(UrlWwwY)), P("region", JStr(<<"Y">>))>>)>>),
     JObj(<<P("apis", JArr(<<Named(<<"Z", "e", "t", "a">>, UrlCapital)>>))>>),
     JArr(<<JObj(<<P("name", JStr(<<"G", "a", "m", "m", "a">>))>>)>>),
     JArr(<<JNum(1), JObj(<<P("apiUrl", JStr(UrlInnerWww))>>)>>),
     JArr(<<With(Named(<<"E", "p", "s">>, UrlX), "count", JFloat("inf"))>>)}

\* the cache that takes every list, the empty one too
StoreAlways(list) == list

\* if apis: _catalogue_cache.clear(); _catalogue_cache.extend(apis)
Store(list) == IF list # <<>> THEN list ELSE cache

\* get_catalogue from the moment fetch_json has returned or raised; an
\* exception of _normalize_catalogue is caught like one of the fetch
GetCatalogue ==
    /\ calls < MaxFetches
    /\ \E data \in Fetched :
       \E done \in {IF data = FetchError THEN NoApis ELSE NormalizeCatalogue(data)} :
           /\ catalogue' = data
           /\ apis' = done
           /\ calls' = calls + 1
           /\ IF done.status = "returned"
              THEN /\ cache' = Store(done.list)
                   /\ reply' = CatalogueResponse(done.list, "", FALSE)
              ELSE /\ cache' = cache
                   /\ reply' = IF cache # <<>>
                               THEN CatalogueResponse(cache, WarningCached, TRUE)
                               ELSE CatalogueResponse(FallbackCatalogue, WarningFallback, TRUE)
    /\ UNCHANGED <<content, extraction, normVars, apiVars, textIn>>

InitCache ==
    /\ content = <<>>
    /\ extraction = NoExtraction
    /\ InitNormVars
    /\ InitApiVars
    /\ InitExploreVars

NextCache == GetCatalogue

SpecCache == InitCache /\ [][NextCache]_vars

----------------------------------------------------------------------------
(* Properties of the extraction *)

MaxOpen == 3

RECURSIVE CloserSeqs(_)
CloserSeqs(n) ==
    IF n = 0 THEN {<<>>}
    ELSE LET shorter == CloserSeqs(n - 1) IN
         shorter \cup {Append(c, x) : c \in shorter, x \in {RB, RK}}

TariffsXValue ==
    JObj(<<JPair(<<"tariffs">>,
                 JArr(<<JObj(<<JPair(<<"name">>, JStr(<<"X">>))>>)>>))>>)

\* the scan of the text from its first "{" never found both counters at zero
NeverBalanced(text) ==
    /\ Find(text, LB) = 1
    /\ ScanTo(text, Len(text)).end_pos = 0

\* C1: a model output truncated mid-document (the counters never return to
\* zero) that some sequence of closing braces and brackets completes to a
\* JSON document is extracted as that document; in particular
\* {"tariffs": [{"name": "X"  is extracted as {"tariffs": [{"name": "X"}]}.
C1_TruncationRepaired ==
    extraction.status # "none" =>
        /\ content = TruncatedTariffsX =>
               /\ extraction.status = "ok"
               /\ extraction.data = <<TariffsXValue>>
        /\ \A c \in CloserSeqs(MaxOpen) :
               (NeverBalanced(content) /\ JsonLoads(content \o c).ok) =>
                   /\ extraction.status = "ok"
                   /\ extraction.data = JsonLoads(content \o c).val

\* the number of quote symbols of g is even
QuotesMatched(g) == Cardinality({i \in 1..Len(g) : g[i] = Q}) % 2 = 0

\* text[1..k] is a JSON object (from "{" to its "}") and the rest is garbage
ObjectThenGarbage(text, k) ==
    /\ text[1] = LB
    /\ JsonLoads(SubSeq(text, 1, k)).ok
    /\ QuotesMatched(SubSeq(text, k + 1, Len(text)))

\* C2: for a text that is a valid JSON object followed by garbage holding no
\* unmatched quote, extraction returns exactly that object, whatever the
\* garbage is.
C2_GarbageIndependent ==
    extraction.status # "none" =>
        \A k \in 1..Len(content) :
            ObjectThenGarbage(content, k) =>
                /\ extraction.status = "ok"
                /\ extraction.data = JsonLoads(SubSeq(content, 1, k)).val

\* C2 witness: an object followed by garbage that holds a "}" was extracted
\* by the repair pass
C2_Witness ==
    /\ extraction.status = "ok"
    /\ extraction.path = "repair"
    /\ \E k \in 1..Len(content) :
           /\ ObjectThenGarbage(content, k)
           /\ \E i \in (k + 1)..Len(content) : content[i] = RB
           /\ extraction.data = JsonLoads(SubSeq(content, 1, k)).val

\* the number of backslashes directly before position p
BackslashRun(s, p) ==
    CHOOSE n \in 0..(p - 1) :
        /\ \A j \in (p - n)..(p - 1) : s[j] = BS
        /\ (p - n - 1 >= 1 => s[p - n - 1] # BS)

\* the quote at position p is not backslash-escaped
OpenQuote(s, p) == s[p] = Q /\ BackslashRun(s, p) % 2 = 0

\* position p lies inside a double-quoted string: an odd number of unescaped
\* quotes precede it
InsideString(s, p) ==
    Cardinality({q \in 1..(p - 1) : OpenQuote(s, q)}) % 2 = 1

Brackets == {LB, RB, LK, RK}

\* C3: during the scan a brace or bracket inside a double-quoted string (an
\* escaped quote does not end the string) changes neither counter and does
\* not set the document boundary; so the boundary of a JSON object followed
\* by anything is the end of that object.
C3_StringSafe ==
    (extraction.status # "none" /\ Find(content, LB) > 0) =>
        LET json_str == SubSeq(content, Find(content, LB), Len(content)) IN
        /\ \A p \in 1..Len(json_str) :
               (json_str[p] \in Brackets /\ InsideString(json_str, p)) =>
                   LET before == ScanTo(json_str, p - 1)
                       after == ScanTo(json_str, p)
                   IN /\ after.brace_count = before.brace_count
                      /\ after.bracket_count = before.bracket_count
                      /\ after.end_pos = before.end_pos
        /\ \A k \in 1..Len(json_str) :
               (JsonLoads(SubSeq(json_str, 1, k)).ok /\ json_str[k] = RB) =>
                   RepairJson(content).json_str = SubSeq(json_str, 1, k)

\* C3 witness: an object whose string holds a brace, followed by a "}", was
\* extracted by the repair pass
C3_Witness ==
    /\ extraction.status = "ok"
    /\ extraction.path = "repair"
    /\ Len(extraction.json_str) < Len(content)
    /\ \E p \in 1..Len(extraction.json_str) :
           /\ extraction.json_str[p] \in {LB, RB}
           /\ InsideString(extraction.json_str, p)

\* C18: extraction of a text that holds no "{" fails with an error and
\* yields no value.
C18_NoBraceFails ==
    (extraction.status # "none" /\ \A i \in 1..Len(content) : content[i] # LB) =>
        /\ extraction.status = "error"
        /\ extraction.err # ""
        /\ extraction.data = <<>>

\* C18 witness: a text that is a JSON value but holds no "{" was refused
C18_Witness ==
    /\ extraction.status = "error"
    /\ content # <<>>
    /\ \A i \in 1..Len(content) : content[i] # LB
    /\ JsonLoads(content).ok

\* C20: when the scan ends with counters that never returned to zero, the
\* repair appends the pending "]" closers before the pending "}" closers, as
\* many of each as its counter.
C20_BracketsBeforeBraces ==
    (extraction.path = "repair" /\ NeverBalanced(content)) =>
        LET st == ScanTo(content, Len(content)) IN
        extraction.json_str =
            RStrip(content) \o Repeat(RK, st.bracket_count) \o Repeat(RB, st.brace_count)

\* the text from its first "{" on
FromFirstBrace(text) == SubSeq(text, Find(text, LB), Len(text))

\* the symbol at position p is met outside a string and is not escaped
Counted(s, p) == ~InsideString(s, p) /\ BackslashRun(s, p) % 2 = 0

\* the openers minus the closers of one kind among the counted symbols of s[1..p]
Depth(s, p, opener, closer) ==
    Cardinality({q \in 1..p : s[q] = opener /\ Counted(s, q)})
    - Cardinality({q \in 1..p : s[q] = closer /\ Counted(s, q)})

BothZero(s, p) == Depth(s, p, LB, RB) = 0 /\ Depth(s, p, LK, RK) = 0

\* C21: the text the repair pass returns starts at the first "{" and ends at
\* the first position after it where the brace counter and the bracket
\* counter are both zero; nothing after that position is part of it.
C21_EndsAtFirstBalance ==
    (extraction.path = "repair" /\ Find(content, LB) > 0) =>
        \A s \in {FromFirstBrace(content)} :
            \A p \in 2..Len(s) :
                (BothZero(s, p) /\ \A q \in 2..(p - 1) : ~BothZero(s, q)) =>
                    extraction.json_str = SubSeq(s, 1, p)

\* C21 witness: the repair pass cut a text at its first balance, with text
\* before the first "{" and after the boundary left out
C21_Witness ==
    /\ extraction.path = "repair"
    /\ Find(content, LB) > 1
    /\ \E p \in 2..(Len(FromFirstBrace(content)) - 1) :
           /\ BothZero(FromFirstBrace(content), p)
           /\ extraction.json_str = SubSeq(FromFirstBrace(content), 1, p)

\* the text from its first "{" to its last "}", the slice the direct pass parses
DirectSlice(text) == SubSeq(text, Find(text, LB), RFind(text, RB))

\* C22: when parsing fails after the repair pass too, extraction fails with
\* an error that carries the parse error of the direct slice, not that of
\* the repaired text, and no TariffsResponse is produced.
C22_OriginalError ==
    /\ (extraction.status = "error" /\ extraction.path = "repair") =>
           /\ extraction.cause = DirectSlice(content)
           /\ ~JsonLoads(extraction.cause).ok
           /\ extraction.err = "Failed to parse AI response as JSON"
    /\ extraction.status = "error" =>
           /\ extraction.data = <<>>
           /\ response = NoResponse

\* C22 witness: the repaired text, another text than the direct slice, failed
\* to parse as well
C22_Witness ==
    /\ extraction.status = "error"
    /\ extraction.path = "repair"
    /\ extraction.json_str # DirectSlice(content)
    /\ ~JsonLoads(extraction.json_str).ok

\* the text holds a "{" and no "}" after the first one
Unclosed(text) ==
    /\ Find(text, LB) > 0
    /\ \A i \in (Find(text, LB) + 1)..Len(text) : text[i] # RB

\* C28: a text with a "{" but no "}" after it fails at once with "No JSON
\* found in response" and is never handed to the repair pass; the repair
\* pass runs only on a text whose slice from the first "{" to the last "}"
\* exists and does not parse.
C28_RepairOnlyAfterSlice ==
    extraction.status # "none" =>
        /\ Unclosed(content) =>
               /\ extraction.status = "error"
               /\ extraction.path = "direct"
               /\ extraction.err = "No JSON found in response"
               /\ extraction.json_str = <<>>
               /\ response = NoResponse
        /\ extraction.path = "repair" =>
               /\ ~Unclosed(content)
               /\ ~JsonLoads(DirectSlice(content)).ok

\* C28 witness: a text that closers would complete to a JSON document was
\* refused without a repair
C28_Witness ==
    /\ extraction.status = "error"
    /\ Unclosed(content)
    /\ \E c \in CloserSeqs(MaxOpen) : JsonLoads(content \o c).ok

----------------------------------------------------------------------------
(* Properties of the normalization *)

\* the tariffs of the request, as the source gave them
SourceTariffs == LET l == GetOr(request, "tariffs", JArr(<<>>)) IN
                 IF l.t = "arr" THEN l.a ELSE <<>>

LacksRequired(t) ==
    \/ ~Has(t, "name")
    \/ ~Has(t, "companyName")
    \/ ~Has(t, "validPeriod")
    \/ ~Has(Get(t, "validPeriod"), "fromIncluding")

\* C4: when a tariff of the input lacks name, companyName or
\* validPeriod.fromIncluding, normalization fails and returns no tariff, not
\* even the valid ones before it.
C4_AllOrNothing ==
    (response.status # "none"
     /\ \E i \in 1..Len(SourceTariffs) : LacksRequired(SourceTariffs[i])) =>
        /\ response.status = "error"
        /\ response.tariffs = <<>>

\* C4 witness: a valid tariff followed by one without companyName was rejected
C4_Witness ==
    /\ response.status = "error"
    /\ Len(SourceTariffs) = 2
    /\ ~LacksRequired(SourceTariffs[1])
    /\ ~Has(SourceTariffs[2], "companyName")

\* a response without identities and timestamps
ShapeOfElement(el) ==
    IF el = <<>> THEN <<>>
    ELSE <<[el[1] EXCEPT !.id = JNull,
                         !.components =
                             [i \in 1..Len(el[1].components) |->
                                 [el[1].components[i] EXCEPT !.id = JNull]]]>>
ShapeOfTariff(t) ==
    [t EXCEPT !.id = JNull, !.lastUpdated = 0,
              !.fixedPrice = ShapeOfElement(@),
              !.energyPrice = ShapeOfElement(@),
              !.powerPrice = ShapeOfElement(@)]
ShapeOf(resp) ==
    [resp EXCEPT !.tariffs = [i \in 1..Len(resp.tariffs) |-> ShapeOfTariff(resp.tariffs[i])],
                 !.used = 0]

\* C8: normalizing the serialized form (camelCase names, JSON values) of a
\* normalized document succeeds and yields the same graph up to the
\* regenerated identities (and the timestamp of the call).
C8_RoundTrip ==
    origin = "json" =>
        /\ response.status = "ok"
        /\ ShapeOf(response) = ShapeOf(previous)

\* the value of key k of obj is given, not null, and no member of the set
OutsideSet(obj, k, members) ==
    /\ Has(obj, k)
    /\ Get(obj, k).t # "null"
    /\ ~EnumOf(Get(obj, k), members).ok

PriceSlots == {"fixedPrice", "energyPrice", "powerPrice"}

\* the components the normalization reaches in tariff t
SourceComponents(t) ==
    UNION { LET el == GetOr(t, slot, JNull)
                cs == GetOr(el, "components", JArr(<<>>))
            IN IF Truthy(el) /\ cs.t = "arr" THEN {cs.a[i] : i \in 1..Len(cs.a)} ELSE {}
            : slot \in PriceSlots }

\* some enumerated field of the request holds a value outside its set
HasValueOutsideSet ==
    \E i \in 1..Len(SourceTariffs) :
        LET t == SourceTariffs[i] IN
        \/ OutsideSet(t, "direction", Directions)
        \/ \E c \in SourceComponents(t) :
               \/ OutsideSet(c, "type", ComponentTypes)
               \/ OutsideSet(c, "unit", Units)
               \/ OutsideSet(GetOr(c, "price", JNull), "currency", Currencies)

\* C9: a source value outside the closed set of currency, unit, component
\* type or direction always makes normalization fail; it is never replaced
\* by a default or taken as absent.
C9_OutsideSetFails ==
    (response.status # "none" /\ HasValueOutsideSet) => response.status = "error"

\* every value found under the key "id" in a JSON value
RECURSIVE IdsUnder(_)
IdsUnder(v) ==
    IF v.t \in {"obj", "arr", "pair"}
    THEN UNION {IdsUnder(v.a[i]) : i \in 1..Len(v.a)}
         \cup (IF v.t = "pair" /\ v.s = W("id") THEN {v.a[1]} ELSE {})
    ELSE {}

ResponseIdSet == {ResponseIds(response.tariffs, 1)[i] :
                     i \in 1..Len(ResponseIds(response.tariffs, 1))}

\* C10: every entity of an output carries an identity generated during that
\* call, never one supplied in the source, and no two entities returned by
\* any calls share an identity.
C10_FreshIds ==
    /\ response.status = "ok" =>
           /\ ResponseIdSet = {Uuid(k) : k \in (nextId - response.used)..(nextId - 1)}
           /\ ResponseIdSet \cap IdsUnder(request) = {}
    /\ \A i, j \in 1..Len(issued) : i # j => issued[i] # issued[j]

\* C10 witness: a document carrying identities issued by an earlier call was
\* normalized into a non-empty response
C10_Witness ==
    /\ origin = "json"
    /\ response.status = "ok"
    /\ response.tariffs # <<>>
    /\ IdsUnder(request) \cap {issued[i] : i \in 1..Len(issued)} # {}

\* the price element the output holds in a slot
OutSlot(t, slot) ==
    CASE slot = "fixedPrice" -> t.fixedPrice
      [] slot = "energyPrice" -> t.energyPrice
      [] slot = "powerPrice" -> t.powerPrice

\* a price element given with an empty components list
EmptyListElement(el) ==
    /\ IsObj(el)
    /\ Has(el, "components")
    /\ Get(el, "components") = JArr(<<>>)

\* the components of the source element, when the normalization reaches them
ComponentsGiven(el) ==
    IF IsObj(el) /\ Truthy(el) /\ GetOr(el, "components", JArr(<<>>)).t = "arr"
    THEN GetOr(el, "components", JArr(<<>>)).a ELSE <<>>

\* the value of a Decimal without the zeros at the end of its digits
RECURSIVE Reduced(_)
Reduced(d) ==
    IF d.m = 0 THEN Dec(0, 0)
    ELSE IF d.m % 10 = 0 THEN Reduced(Dec(d.m \div 10, d.e - 1))
    ELSE d

\* two Decimals compare equal
SameValue(a, b) == Reduced(a) = Reduced(b)

\* the source price is literal lit, as a number for priceExVat and quoted
\* for priceIncVat
GivenBothWays(price, lit) ==
    /\ IsObj(price)
    /\ GetOr(price, "priceExVat", JNull) = FloatOfLiteral(lit)
    /\ GetOr(price, "priceIncVat", JNull) = S(lit)

\* C19: a price given as a JSON number and the same price given as a quoted
\* string normalize to the same decimal value, the value the literal
\* writes, with no artifact of the binary floating-point form.
C19_DecimalFidelity ==
    response.status = "ok" =>
        \A i \in 1..Len(response.tariffs) : \A slot \in PriceSlots :
            LET out == OutSlot(response.tariffs[i], slot)
                cs == ComponentsGiven(GetOr(SourceTariffs[i], slot, JNull))
            IN \A j \in 1..Len(cs) : \A lit \in PriceLiterals :
                   GivenBothWays(GetOr(cs[j], "price", JNull), lit) =>
                       /\ SameValue(out[1].components[j].price.priceExVat,
                                    out[1].components[j].price.priceIncVat)
                       /\ SameValue(out[1].components[j].price.priceExVat,
                                    DecimalOfToken(lit))

\* C11: an absent fixedPrice, energyPrice, powerPrice, component
\* peakIdentificationSettings or component validPeriod is absent in the
\* output, never an empty object; a price element given with an empty
\* components list is present in the output with zero components, which
\* differs from the absent one.
C11_AbsentStaysAbsent ==
    response.status = "ok" =>
        \A i \in 1..Len(response.tariffs) : \A slot \in PriceSlots :
            LET src == GetOr(SourceTariffs[i], slot, JNull)
                out == OutSlot(response.tariffs[i], slot)
                cs == ComponentsGiven(src)
            IN /\ ~Has(SourceTariffs[i], slot) => out = <<>>
               /\ EmptyListElement(src) =>
                      /\ out # <<>>
                      /\ out[1].components = <<>>
                      /\ \A other \in PriceSlots :
                             ~Has(SourceTariffs[i], other) =>
                                 out # OutSlot(response.tariffs[i], other)
               /\ \A j \in 1..Len(cs) :
                      /\ ~Has(cs[j], "peakIdentificationSettings") =>
                             out[1].components[j].peakIdentificationSettings = <<>>
                      /\ ~Has(cs[j], "validPeriod") =>
                             out[1].components[j].validPeriod = <<>>

\* C11 witness: a tariff given with an empty fixedPrice components list and
\* no energyPrice was normalized to a present element and an absent one
C11_Witness ==
    /\ response.status = "ok"
    /\ Len(response.tariffs) = 1
    /\ EmptyListElement(GetOr(SourceTariffs[1], "fixedPrice", JNull))
    /\ ~Has(SourceTariffs[1], "energyPrice")
    /\ response.tariffs[1].fixedPrice # <<>>
    /\ response.tariffs[1].energyPrice = <<>>

\* C12: every response the normalization returns carries the fixed default
\* calendar patterns, whatever patterns the source gave or left out.
C12_DefaultPatterns ==
    response.status = "ok" =>
        /\ response.calendarPatterns = DefaultCalendarPatterns
        /\ Len(response.calendarPatterns) = 3
        /\ response.calendarPatterns[1].days = <<1, 2, 3, 4, 5>>
        /\ response.calendarPatterns[2].days = <<6, 7>>
        /\ response.calendarPatterns[3].reference = "holidays"

\* C12 witness: a document that gave its own calendar pattern was normalized
C12_Witness ==
    /\ response.status = "ok"
    /\ origin = "source"
    /\ Has(request, "calendarPatterns")
    /\ Get(request, "calendarPatterns").a # <<>>

\* the components of the output and of the source, slot by slot, of the
\* tariffs of a response: out is the normalized component of source src
Normalized ==
    UNION { { [src |-> ComponentsGiven(GetOr(SourceTariffs[p[1]], p[2], JNull))[j],
               out |-> OutSlot(response.tariffs[p[1]], p[2])[1].components[j]] :
                  j \in 1..Len(OutSlot(response.tariffs[p[1]], p[2])[1].components) } :
            p \in { q \in (1..Len(response.tariffs)) \X PriceSlots :
                        OutSlot(response.tariffs[q[1]], q[2]) # <<>> } }

PeakCount == "numberOfPeaksForAverageCalculation"

\* C25: in every response the normalization returns, the
\* numberOfPeaksForAverageCalculation of every peak identification settings
\* object is an integer of at least 1.
C25_PositivePeaks ==
    response.status = "ok" =>
        \A c \in Normalized :
            c.out.peakIdentificationSettings # <<>> =>
                c.out.peakIdentificationSettings[1].numberOfPeaksForAverageCalculation >= 1

\* key k of source object src normalized to out: the default when the key is
\* absent, the source value when it is present and valid
Defaulted(src, k, valid(_), default, out) ==
    /\ ~Has(src, k) => out = default
    /\ Has(src, k) /\ valid(Get(src, k)) => out = Get(src, k).s

IsDirection(v) == IsStr(v) /\ Len(v.s) = 1 /\ v.s[1] \in Directions

\* the recurring periods of a source component with those of its output
RecurringOfComponent(c) ==
    { [src |-> Get(c.src, "recurringPeriods").a[k], out |-> c.out.recurringPeriods[k]] :
          k \in 1..Len(c.out.recurringPeriods) }

\* C26: a key absent from the source normalizes to its default: timeZone to
\* "Europe/Stockholm", direction to consumption, billingPeriod to "P1M",
\* companyOrgNo to the empty string, the reference of a component and of a
\* recurring period to "main", the frequency of a recurring period to "P1D"
\* and numberOfPeaksForAverageCalculation to 1; a key present with a valid
\* value normalizes to that value.
C26_Defaults ==
    response.status = "ok" =>
        /\ \A i \in 1..Len(response.tariffs) :
               \E src \in {SourceTariffs[i]} : \E out \in {response.tariffs[i]} :
                   /\ Defaulted(src, "timeZone", IsStr, W("Europe/Stockholm"), out.timeZone)
                   /\ Defaulted(src, "billingPeriod", IsStr, W("P1M"), out.billingPeriod)
                   /\ Defaulted(src, "companyOrgNo", IsStr, <<>>, out.companyOrgNo)
                   /\ Defaulted(src, "direction", IsDirection, W("consumption"),
                                W(out.direction))
        /\ \A c \in Normalized :
               /\ Defaulted(c.src, "reference", IsStr, W("main"), c.out.reference)
               /\ \A r \in RecurringOfComponent(c) :
                      /\ Defaulted(r.src, "reference", IsStr, W("main"), r.out.reference)
                      /\ Defaulted(r.src, "frequency", IsStr, W("P1D"), r.out.frequency)
               /\ c.out.peakIdentificationSettings # <<>> =>
                      \E ps \in {Get(c.src, "peakIdentificationSettings")} :
                      \E n \in {c.out.peakIdentificationSettings[1]
                                    .numberOfPeaksForAverageCalculation} :
                          /\ ~Has(ps, PeakCount) => n = 1
                          /\ Has(ps, PeakCount) /\ Get(ps, PeakCount).t = "num"
                                 => n = Get(ps, PeakCount).n

\* C26 witness: a recurring period given with neither reference nor
\* frequency was normalized inside a tariff given with neither time zone nor
\* direction
C26_Witness ==
    /\ response.status = "ok"
    /\ origin = "source"
    /\ Len(response.tariffs) = 1
    /\ ~Has(SourceTariffs[1], "timeZone")
    /\ ~Has(SourceTariffs[1], "direction")
    /\ response.tariffs[1].timeZone = W("Europe/Stockholm")
    /\ \E c \in Normalized : \E r \in RecurringOfComponent(c) :
           /\ ~Has(r.src, "reference")
           /\ ~Has(r.src, "frequency")
           /\ r.out.frequency = W("P1D")

\* the price of source component src is left out, or lacks one of its values
LacksPrice(src) ==
    \/ ~Has(src, "price")
    \/ /\ IsObj(Get(src, "price"))
       /\ \/ ~Has(Get(src, "price"), "priceExVat")
          \/ ~Has(Get(src, "price"), "priceIncVat")

C27_NoSharedObject ==
    /\ \A a \in 1..Len(graphs) : graphs[a] \cap DefaultPatternObjects = {}
    /\ \A a \in 1..Len(graphs) : \A b \in 1..Len(graphs) :
           a # b => graphs[a] \cap graphs[b] = {}

----------------------------------------------------------------------------
(* Properties of the catalogue normalization *)

\* the entries of the catalogue and what the loop makes of each
Given == ExtractCatalogueItems(catalogue)
IsDropped(item) == CatalogueEntry(item).kind = "skip"
IsValid(item) == CatalogueEntry(item).kind = "api"
ApiOf(item) == CatalogueEntry(item).api[1]
Listed == {apis.list[j] : j \in 1..Len(apis.list)}

\* C13: _normalize_catalogue returns a list for every JSON value, and never
\* raises
C13_NeverFails == apis.status # "none" => apis.status = "returned"

\* C14: an entry without a resolvable URL, or whose record cannot be built,
\* is dropped alone: it is not in the output and every valid entry of the
\* same list is
C14_DroppedAlone ==
    (apis.status # "none" /\ \E i \in 1..Len(Given) : IsDropped(Given[i])) =>
        /\ \A i \in 1..Len(Given) : IsValid(Given[i]) => ApiOf(Given[i]) \in Listed
        /\ Len(apis.list) = Cardinality({i \in 1..Len(Given) : IsValid(Given[i])})

\* the hostname without a leading "www."
StripLeadingWww(hostname) ==
    IF Len(hostname) >= Len(Www) /\ SubSeq(hostname, 1, Len(Www)) = Www
    THEN After(hostname, Len(Www))
    ELSE hostname

IsNameless(item) == ~Truthy(PickFirst(item, NameAliases))
UrlOf(item) == PyStr(PickFirst(item, UrlAliases))

\* C15: an entry no name alias names is named by the hostname of its API
\* URL, a leading "www." stripped and the rest unchanged
C15_HostnameName ==
    apis.status = "returned" =>
        \A i \in 1..Len(Given) :
            (IsValid(Given[i]) /\ IsNameless(Given[i])) =>
                \E api \in Listed :
                    /\ api.api_url = HttpUrl(UrlOf(Given[i]))
                    /\ api.name = StripLeadingWww(UrlHostname(UrlOf(Given[i]))[1])

Occurrences(seq, x) == Cardinality({j \in 1..Len(seq) : seq[j] = x})
Accepted ==
    LET valid == SelectSeq(Given, IsValid) IN [i \in 1..Len(valid) |-> ApiOf(valid[i])]

\* C16: the returned list is ordered by the lower-cased name and holds
\* exactly the accepted entries, each as often as it was accepted
C16_SortedExactly ==
    apis.status = "returned" =>
        /\ \A j \in 1..(Len(apis.list) - 1) :
               LeqStr(Lower(apis.list[j].name), Lower(apis.list[j + 1].name))
        /\ \A accepted \in {Accepted} :
               /\ Len(apis.list) = Len(accepted)
               /\ \A api \in {accepted[i] : i \in 1..Len(accepted)} :
                      Occurrences(apis.list, api) = Occurrences(accepted, api)

\* C16 witness: a list was returned in which a small letter comes before a
\* capital one, the entries were given in another order and one was dropped
C16_Witness ==
    /\ apis.status = "returned"
    /\ \E j \in 1..(Len(apis.list) - 1) : ~LeqStr(apis.list[j].name, apis.list[j + 1].name)
    /\ apis.list # Accepted
    /\ Len(Given) > Len(apis.list)

\* the value is a sequence of mappings
IsMappings(v) == IsList(v) /\ \A i \in 1..Len(v.a) : IsObj(v.a[i])

\* the value of the first candidate key that holds a sequence of mappings
RECURSIVE FirstMappings(_, _)
FirstMappings(data, keys) ==
    IF keys = <<>> THEN <<>>
    ELSE IF Has(data, Head(keys)) /\ IsMappings(Get(data, Head(keys)))
         THEN Get(data, Head(keys)).a
         ELSE FirstMappings(data, Tail(keys))

\* C24: for a mapping, the items are the value of the first key, in the
\* order apis, items, data, results, entries, catalogue, whose value is a
\* sequence of mappings; a candidate whose value is not one is skipped and
\* the later candidates are probed.  For a sequence, the items are the
\* mappings of the sequence itself.
C24_FirstSequenceOfMappings ==
    apis.status # "none" =>
        /\ IsObj(catalogue) => apis.items = FirstMappings(catalogue, ContainerKeys)
        /\ IsList(catalogue) => apis.items = SelectSeq(catalogue.a, IsObj)

\* the call just answered fetched a catalogue that normalized to a list with
\* an entry
StoredNow == apis'.status = "returned" /\ apis'.list # <<>>

\* C29: the cache is empty until a call fetches a catalogue that normalizes
\* to a non-empty list; such a call makes the cache those entries; a call
\* whose fetch fails or whose catalogue normalizes to an empty list leaves
\* the cache as it is.  A call whose fetch fails returns, never raises, with
\* success true and the cached entries when the cache is not empty, the
\* static fallback list when it is.
C29_CacheKeepsLastGood ==
    /\ cache = <<>>
    /\ [][calls' # calls =>
              /\ cache' = IF StoredNow THEN apis'.list ELSE cache
              /\ reply'.status = "returned"
              /\ catalogue' = FetchError =>
                     /\ reply'.success
                     /\ reply'.apis = IF cache # <<>> THEN cache ELSE FallbackCatalogue]_vars

\* C29 witness: after a call stored two entries, a call fetched a catalogue
\* that normalizes to nothing and a later call, whose fetch failed, was
\* answered with the two cached entries
C29_Witness ==
    /\ calls >= 3
    /\ catalogue = FetchError
    /\ Len(cache) = 2
    /\ reply.success
    /\ reply.apis = cache
    /\ reply.warning = WarningCached

----------------------------------------------------------------------------
(* Properties of the guard and of the endpoints *)

\* the name holds a symbol that is no whitespace
NonBlank(name) == \E i \in 1..Len(name) : name[i] \notin Whitespace

ComponentsOf(el) == IF el = <<>> THEN <<>> ELSE el[1].components
HasComponent(t) ==
    ComponentsOf(t.fixedPrice) \o ComponentsOf(t.energyPrice) \o ComponentsOf(t.powerPrice)
        # <<>>

Checked == body.response.tariffs

\* C5: the guard answers ok exactly when the tariff sequence is non-empty and
\* every tariff has a company name that is not blank after trimming and a
\* component in one of its price elements, whatever its price; otherwise it
\* answers not ok with a reason.
C5_GuardOkExactly ==
    verdict # NoVerdict =>
        /\ verdict.ok <=>
              /\ Checked # <<>>
              /\ \A i \in 1..Len(Checked) :
                     NonBlank(Checked[i].companyName) /\ HasComponent(Checked[i])
        /\ ~verdict.ok => verdict.reason # ""

\* C5 witness: a tariff with a padded company name whose only component has
\* price zero passed the guard
C5_Witness ==
    /\ verdict # NoVerdict
    /\ verdict.ok
    /\ \E i \in 1..Len(Checked) :
           /\ Checked[i].companyName = <<SP, "Acme", SP>>
           /\ ComponentsOf(Checked[i].fixedPrice) = <<PricedComponent(Dec(0, 0))>>
           /\ Checked[i].energyPrice = <<>>

ViolatesRule2 == \E i \in 1..Len(Checked) : ~NonBlank(Checked[i].companyName)
ViolatesRule3 == \E i \in 1..Len(Checked) : ~HasComponent(Checked[i])

\* C6 as stated: the rules are tried in order over the whole response, rule 1
\* (some tariff), rule 2 (every company name), rule 3 (every tariff priced),
\* and the first rule that fails gives the reason.
C6_Original ==
    verdict # NoVerdict =>
        verdict.reason =
            IF Checked = <<>> THEN ReasonNoTariffs
            ELSE IF ViolatesRule2 THEN ReasonNoCompany
            ELSE IF ViolatesRule3 THEN ReasonNoComponents
            ELSE ""

\* the first tariff that breaks rule 2 or rule 3
FirstFailing ==
    CHOOSE i \in 1..Len(Checked) :
        /\ ~NonBlank(Checked[i].companyName) \/ ~HasComponent(Checked[i])
        /\ \A j \in 1..(i - 1) :
               NonBlank(Checked[j].companyName) /\ HasComponent(Checked[j])

\* C6 as amended: rule 1 is tried first; then the tariffs are gone through in
\* order and on each one rule 2 is tried before rule 3; the first tariff
\* that breaks a rule gives the reason, the company-name reason when its
\* name is blank and the component reason otherwise.
C6_FirstFailingTariff ==
    verdict # NoVerdict =>
        verdict.reason =
            IF Checked = <<>> THEN ReasonNoTariffs
            ELSE IF ~(ViolatesRule2 \/ ViolatesRule3) THEN ""
            ELSE IF ~NonBlank(Checked[FirstFailing].companyName) THEN ReasonNoCompany
            ELSE ReasonNoComponents

\* C6 witness: a named tariff without components came before a tariff with a
\* blank name, and the component reason was given
C6_Witness ==
    /\ verdict # NoVerdict
    /\ ViolatesRule2
    /\ verdict.reason = ReasonNoComponents

Passes(resp) ==
    /\ resp.tariffs # <<>>
    /\ \A i \in 1..Len(resp.tariffs) :
           NonBlank(resp.tariffs[i].companyName) /\ HasComponent(resp.tariffs[i])

Occurring(keywords) == {keyword \in keywords : Contains(Lower(textIn), keyword)}

\* C23: the raw text is scored by check_el_tariff_text before the model call
\* and the normalization: a text the check does not accept is never handed
\* on, so nothing is extracted or normalized for it.
C23_TextCheckedFirst ==
    extraction.status # "none" \/ response.status # "none" =>
        CheckElTariffText(textIn).ok

\* C17: check_el_tariff_text answers ok exactly when the lower-cased text
\* contains a keyword of the strong set and two keywords of the full set;
\* otherwise it answers not ok with the one fixed reason
C17_TextGuard ==
    verdict # NoVerdict =>
        /\ verdict.ok <=> (Occurring(STRONG_KEYWORDS) # {} /\ Cardinality(Occurring(KEYWORDS)) >= 2)
        /\ ~verdict.ok => verdict.reason = ReasonNotTariff

\* C17 witness: a text with a capital letter whose lower-cased form contains
\* "kwh", and "kw" inside it, was accepted
C17_Witness ==
    /\ verdict # NoVerdict
    /\ verdict.ok
    /\ textIn # Lower(textIn)
    /\ Occurring(KEYWORDS) = {<<"k", "w">>, <<"k", "w", "h">>}

====
